---- MODULE Spec2Model ----
(***************************************************************************)
(* A model of misri, an interpreter for a three-address-code IR.           *)
(*                                                                         *)
(*   value.rs  -> the Value operators (ValInt, ValPtr, arithmetic, load,   *)
(*                store, comparison, Display)                              *)
(*   instr.rs  -> Operand / Instr / Func / Program and the resolution pass *)
(*   env.rs    -> Frame and Env                                            *)
(*   exec.rs   -> Interpreter::new, exec and step                          *)
(*                                                                         *)
(* Indices (pc, slot ids, function ids, pointer offsets) are 0-based as in *)
(* the source; TLA+ sequences are 1-based, so a Vec access v[i] is written *)
(* v[i + 1].                                                               *)
(***************************************************************************)
EXTENDS Integers, Sequences, FiniteSets, TLC

VARIABLES
    test,       \* the program text handed to the parser, the input stream
                \* and the profile the interpreter was built under
    phase,      \* "new", "running", "halted" (step returned None), "panic"
    program,    \* Interpreter.program
    stack,      \* Interpreter.env.stack
    args,       \* Interpreter.env.args
    fin,        \* Interpreter.fin: the lines not yet read
    fout,       \* Interpreter.fout: what has been written, token by token
    instr_cnt,  \* the counter of exec
    fault,      \* the panic message, "" while none
    nalloc,     \* how many times Value::new_ptr has run (names the allocations)
    expect      \* the locals of the unit tests: in env.rs test_get_set the
                \* register values the test expects to find again in each
                \* frame below the top, in value.rs test_int and test_ptr the
                \* operands and the results

vars ==
    <<test, phase, program, stack, args, fin, fout, instr_cnt, fault, nalloc,
      expect>>

-----------------------------------------------------------------------------
(* Bounds of the model.                                                    *)

\* the env.rs test pushes frames up to this depth
MaxEnvDepth == 3

\* test_fib is run on every input 0..MaxFibN
MaxFibN == 5

\* the three-argument program is run with its read input in 0..MaxArgIn
MaxArgIn == 2

-----------------------------------------------------------------------------
(* value.rs                                                                *)

\* Value::ValInt.  Every Value is a record of one shape; the fields a
\* variant does not have are left at their defaults.
ValInt(i) ==
    [tag |-> "int", int |-> i, mem |-> <<>>, size |-> 0, ptr |-> 0,
     alloc |-> 0, msg |-> ""]

\* Value::ValPtr { mem, size, ptr }.  mem is a Box<Vec<i32>>: the value owns
\* its buffer, and cloning the value clones the buffer.  ptr is a usize
\* that the arithmetic computes through i32; it is kept here as that i32, a
\* negative one standing for the usize 2^64 + ptr (never a valid index).
\* alloc names the execution of new_ptr the buffer descends from; it is not
\* a field of the source and no operation reads it.
ValPtr(mem, size, ptr, alloc) ==
    [tag |-> "ptr", int |-> 0, mem |-> mem, size |-> size, ptr |-> ptr,
     alloc |-> alloc, msg |-> ""]

\* The result of an operation that panicked, with the panic message.
Fault(msg) ==
    [tag |-> "fault", int |-> 0, mem |-> <<>>, size |-> 0, ptr |-> 0,
     alloc |-> 0, msg |-> msg]

IsFault(v) == v.tag = "fault"

new_int(int) == ValInt(int)

\* Value::default
DefaultValue == new_int(0)

\* a new_ptr whose cells hold 1
new_ptr_ones(size, alloc) ==
    IF size < 0
    THEN Fault("capacity overflow")
    ELSE ValPtr([i \in 1..size |-> 1], size, 0, alloc)

\* Value::new_ptr(size), as the alloc-th allocation of the run
new_ptr(size, alloc) ==
    IF size < 0
    THEN Fault("capacity overflow")
    ELSE ValPtr([i \in 1..size |-> 0], size, 0, alloc)

\* the index mem[ptr]: in bounds or a panic
InBounds(v) == v.ptr >= 0 /\ v.ptr < Len(v.mem)

\* a load that reads 0 where the offset is outside the buffer
load_unchecked(v) ==
    CASE IsFault(v) -> v
      [] v.tag = "int" -> Fault("cannot load ValInt")
      [] v.tag = "ptr" ->
            IF InBounds(v) THEN ValInt(v.mem[v.ptr + 1])
            ELSE ValInt(0)

\* Value::load
load(v) ==
    CASE IsFault(v) -> v
      [] v.tag = "int" -> Fault("cannot load ValInt")
      [] v.tag = "ptr" ->
            IF InBounds(v) THEN ValInt(v.mem[v.ptr + 1])
            ELSE Fault("index out of bounds")

\* a store that writes the first cell, whatever the offset
store_at_base(v, val) ==
    CASE IsFault(v) -> v
      [] IsFault(val) -> val
      [] v.tag = "int" -> Fault("cannot store ValInt!")
      [] v.tag = "ptr" ->
            IF val.tag = "int"
            THEN IF InBounds(v)
                 THEN [v EXCEPT !.mem[1] = val.int]
                 ELSE Fault("index out of bounds")
            ELSE v

\* Value::store: the receiver after the call (or the panic)
store(v, val) ==
    CASE IsFault(v) -> v
      [] IsFault(val) -> val
      [] v.tag = "int" -> Fault("cannot store ValInt!")
      [] v.tag = "ptr" ->
            IF val.tag = "int"
            THEN IF InBounds(v)
                 THEN [v EXCEPT !.mem[v.ptr + 1] = val.int]
                 ELSE Fault("index out of bounds")
            ELSE v

\* i32::MAX and i32::MIN: ValInt holds an i32
I32Max == 2147483647

I32Min == -I32Max - 1

\* whether the build panics on arithmetic overflow (the debug profile) or
\* wraps (the release profile): the sources do not fix the profile
OverflowChecks == test.profile = "debug"

\* the four bytes of an i32 in two's complement, least significant first
Bytes(a) ==
    <<a % 256, (a \div 256) % 256, (a \div 65536) % 256,
      (a \div 16777216) % 256>>

\* the i32 of four bytes
FromBytes(r) ==
    LET top == IF r[4] >= 128 THEN r[4] - 256 ELSE r[4]
    IN ((top * 16777216 + r[3] * 65536) + r[2] * 256) + r[1]

\* i32::wrapping_add, byte by byte with carry
wrapping_add(a, b) ==
    LET x == Bytes(a)
        y == Bytes(b)
        t1 == x[1] + y[1]
        t2 == x[2] + y[2] + (t1 \div 256)
        t3 == x[3] + y[3] + (t2 \div 256)
        t4 == x[4] + y[4] + (t3 \div 256)
    IN FromBytes(<<t1 % 256, t2 % 256, t3 % 256, t4 % 256>>)

\* i32::wrapping_sub: a + !b + 1
wrapping_sub(a, b) ==
    LET x == Bytes(a)
        y == Bytes(b)
        t1 == x[1] + (255 - y[1]) + 1
        t2 == x[2] + (255 - y[2]) + (t1 \div 256)
        t3 == x[3] + (255 - y[3]) + (t2 \div 256)
        t4 == x[4] + (255 - y[4]) + (t3 \div 256)
    IN FromBytes(<<t1 % 256, t2 % 256, t3 % 256, t4 % 256>>)

\* i32::wrapping_mul: the low four columns of the schoolbook product
wrapping_mul(a, b) ==
    LET x == Bytes(a)
        y == Bytes(b)
        t1 == x[1] * y[1]
        t2 == x[1] * y[2] + x[2] * y[1] + (t1 \div 256)
        t3 == x[1] * y[3] + x[2] * y[2] + x[3] * y[1] + (t2 \div 256)
        t4 == x[1] * y[4] + x[2] * y[3] + x[3] * y[2] + x[4] * y[1]
                + (t3 \div 256)
    IN FromBytes(<<t1 % 256, t2 % 256, t3 % 256, t4 % 256>>)

\* whether the exact result of a op b lies outside i32 (decided without
\* computing it)
Overflows(op, a, b) ==
    CASE op = "Add" ->
            \/ b > 0 /\ a > I32Max - b
            \/ b < 0 /\ a < I32Min - b
      [] op = "Sub" ->
            \/ b < 0 /\ a > I32Max + b
            \/ b > 0 /\ a < I32Min + b
      [] op = "Mul" ->
            (CASE a = 0 \/ b = 0 -> FALSE
               [] a > 0 /\ b > 0 -> a > I32Max \div b
               [] a > 0 /\ b < 0 -> b < (I32Min + a - 1) \div a
               [] a < 0 /\ b > 0 -> a < (I32Min + b - 1) \div b
               [] a < 0 /\ b < 0 ->
                     a = I32Min \/ b = I32Min \/ (-a) > I32Max \div (-b))
      [] op = "Div" -> a = I32Min /\ b = -1

\* i32 division truncates toward zero (\div floors); b is not 0 and the
\* quotient is not I32Min / -1
TruncDiv(a, b) ==
    LET TruncPos(n, d) ==
            IF n >= 0 \/ n % d = 0 THEN n \div d ELSE (n \div d) + 1
    IN CASE b > 0 -> TruncPos(a, b)
         [] b = I32Min -> IF a = I32Min THEN 1 ELSE 0
         [] OTHER -> -TruncPos(a, -b)

\* a division that yields 0 for a zero divisor
I32DivZeroIsZero(a, b) ==
    CASE b = 0 -> ValInt(0)
      [] Overflows("Div", a, b) -> Fault("attempt to divide with overflow")
      [] OTHER -> ValInt(TruncDiv(a, b))

\* i32 `/`: a zero divisor and I32Min / -1 panic under every profile
I32Div(a, b) ==
    CASE b = 0 -> Fault("attempt to divide by zero")
      [] Overflows("Div", a, b) -> Fault("attempt to divide with overflow")
      [] OTHER -> ValInt(TruncDiv(a, b))

\* the four i32 operations of the ops impls: + - * panic on overflow when
\* the build checks for it and wrap when it does not
IntOp(op, a, b) ==
    CASE op = "Div" -> I32Div(a, b)
      [] Overflows(op, a, b) ->
            IF OverflowChecks
            THEN Fault(CASE op = "Add" -> "attempt to add with overflow"
                         [] op = "Sub" -> "attempt to subtract with overflow"
                         [] op = "Mul" -> "attempt to multiply with overflow")
            ELSE ValInt(CASE op = "Add" -> wrapping_add(a, b)
                          [] op = "Sub" -> wrapping_sub(a, b)
                          [] op = "Mul" -> wrapping_mul(a, b))
      [] op = "Add" -> ValInt(a + b)
      [] op = "Sub" -> ValInt(a - b)
      [] op = "Mul" -> ValInt(a * b)

\* an arithmetic whose last arm yields the left pointer
Arith2PtrPtrKeepsLeft(op, lhs, rhs) ==
    CASE IsFault(lhs) -> lhs
      [] IsFault(rhs) -> rhs
      [] lhs.tag = "int" /\ rhs.tag = "int" -> IntOp(op, lhs.int, rhs.int)
      [] lhs.tag = "ptr" /\ rhs.tag = "int" ->
            LET r == IntOp(op, lhs.ptr, rhs.int)
            IN IF IsFault(r) THEN r ELSE [lhs EXCEPT !.ptr = r.int]
      [] lhs.tag = "int" /\ rhs.tag = "ptr" ->
            LET r == IntOp(op, rhs.ptr, lhs.int)
            IN IF IsFault(r) THEN r ELSE [rhs EXCEPT !.ptr = r.int]
      [] OTHER -> lhs

\* an arithmetic whose Integer op Pointer arm takes the integer alone as the
\* new offset
Arith2IntPtrDropsOffset(op, lhs, rhs) ==
    CASE IsFault(lhs) -> lhs
      [] IsFault(rhs) -> rhs
      [] lhs.tag = "int" /\ rhs.tag = "int" -> IntOp(op, lhs.int, rhs.int)
      [] lhs.tag = "ptr" /\ rhs.tag = "int" ->
            LET r == IntOp(op, lhs.ptr, rhs.int)
            IN IF IsFault(r) THEN r ELSE [lhs EXCEPT !.ptr = r.int]
      [] lhs.tag = "int" /\ rhs.tag = "ptr" -> [rhs EXCEPT !.ptr = lhs.int]
      [] OTHER -> Fault("ptr op ptr")

\* impl Add / Sub / Mul / Div for Value: one match of four arms each.  In
\* the two mixed arms the new offset is always `ptr op int`, the pointer's
\* offset on the left, whichever side the pointer was on.
Arith2(op, lhs, rhs) ==
    CASE IsFault(lhs) -> lhs
      [] IsFault(rhs) -> rhs
      [] lhs.tag = "int" /\ rhs.tag = "int" -> IntOp(op, lhs.int, rhs.int)
      [] lhs.tag = "ptr" /\ rhs.tag = "int" ->
            LET r == IntOp(op, lhs.ptr, rhs.int)
            IN IF IsFault(r) THEN r ELSE [lhs EXCEPT !.ptr = r.int]
      [] lhs.tag = "int" /\ rhs.tag = "ptr" ->
            LET r == IntOp(op, rhs.ptr, lhs.int)
            IN IF IsFault(r) THEN r ELSE [rhs EXCEPT !.ptr = r.int]
      [] OTHER ->
            Fault(CASE op = "Add" -> "ptr + ptr" [] op = "Sub" -> "ptr - ptr"
                    [] op = "Mul" -> "ptr * ptr" [] op = "Div" -> "ptr / ptr")

\* comparisons whose <= and >= leave out equality
RelHoldsStrict(op, vx, vy) ==
    CASE op = "LT" -> vx.int < vy.int
      [] op = "LE" -> vx.int < vy.int
      [] op = "GT" -> vx.int > vy.int
      [] op = "GE" -> vx.int > vy.int
      [] op = "EQ" -> vx = vy
      [] op = "NE" -> vx # vy

\* derived PartialEq: same variant and equal fields
ValEq(a, b) ==
    /\ a.tag = b.tag
    /\ a.int = b.int
    /\ a.mem = b.mem
    /\ a.size = b.size
    /\ a.ptr = b.ptr

\* impl PartialOrd: "LT", "EQ", "GT" between two ValInt, None otherwise
partial_cmp(a, b) ==
    IF a.tag = "int" /\ b.tag = "int"
    THEN (CASE a.int < b.int -> "LT" [] a.int = b.int -> "EQ" [] OTHER -> "GT")
    ELSE "None"

\* the six comparisons of step's Cond arm: <, <=, >, >= go through
\* partial_cmp, == and != through PartialEq
RelHolds(op, vx, vy) ==
    CASE op = "LT" -> partial_cmp(vx, vy) = "LT"
      [] op = "LE" -> partial_cmp(vx, vy) \in {"LT", "EQ"}
      [] op = "GT" -> partial_cmp(vx, vy) = "GT"
      [] op = "GE" -> partial_cmp(vx, vy) \in {"GT", "EQ"}
      [] op = "EQ" -> ValEq(vx, vy)
      [] op = "NE" -> ~ValEq(vx, vy)

\* impl Display: ValPtr loads first, and the load can panic
DisplayPanics(v) == v.tag = "ptr" /\ IsFault(load(v))

\* impl Display: the tokens written for a value.  ValInt writes the number
\* and a newline (writeln!); ValPtr writes the Display of the loaded value
\* (itself a ValInt) and a newline.
Display(v) ==
    IF v.tag = "int"
    THEN <<ToString(v.int), "\n">>
    ELSE <<ToString(load(v).int), "\n", "\n">>

-----------------------------------------------------------------------------
(* instr.rs: operands and instructions                                     *)

\* the ArithOp variants
ArithOps == {"Add", "Sub", "Mul", "Div"}

\* Operand::Reg { name, id } as the parser builds it (id: Default)
Reg(name) == [kind |-> "Reg", name |-> name, id |-> 0, int |-> 0]

\* Operand::Imm(int)
Imm(int) == [kind |-> "Imm", name |-> "", id |-> 0, int |-> int]

\* the operand position a variant does not have
NoOperand == [kind |-> "None", name |-> "", id |-> 0, int |-> 0]

\* enum Instr.  Every instruction is a record of one shape: op is the
\* variant; x, y, z its operands in declaration order; aop / rop the ArithOp
\* / RelOp; name and id the symbolic and the resolved target of Label, Goto,
\* Cond and Call; size the cell count of Dec.
MkInstr(op, x, y, z, aop, rop, name, size) ==
    [op |-> op, x |-> x, y |-> y, z |-> z, aop |-> aop, rop |-> rop,
     name |-> name, id |-> 0, size |-> size]

Assign(x, y)       == MkInstr("Assign", x, y, NoOperand, "", "", "", 0)
Arith(x, y, op, z) == MkInstr("Arith", x, y, z, op, "", "", 0)
Deref(x, y)        == MkInstr("Deref", x, y, NoOperand, "", "", "", 0)
Store(x, y)        == MkInstr("Store", x, y, NoOperand, "", "", "", 0)
Load(x, y)         == MkInstr("Load", x, y, NoOperand, "", "", "", 0)
Label(name)        == MkInstr("Label", NoOperand, NoOperand, NoOperand, "", "", name, 0)
Goto(name)         == MkInstr("Goto", NoOperand, NoOperand, NoOperand, "", "", name, 0)
Cond(x, op, y, name) == MkInstr("Cond", x, y, NoOperand, "", op, name, 0)
Return(x)          == MkInstr("Return", x, NoOperand, NoOperand, "", "", "", 0)
Dec(x, size)       == MkInstr("Dec", x, NoOperand, NoOperand, "", "", "", size)
Arg(x)             == MkInstr("Arg", x, NoOperand, NoOperand, "", "", "", 0)
Call(x, name)      == MkInstr("Call", x, NoOperand, NoOperand, "", "", name, 0)
Param(x)           == MkInstr("Param", x, NoOperand, NoOperand, "", "", "", 0)
Read(x)            == MkInstr("Read", x, NoOperand, NoOperand, "", "", "", 0)
Write(x)           == MkInstr("Write", x, NoOperand, NoOperand, "", "", "", 0)

\* struct Func as the parser builds it
Func(name, body) == [name |-> name, body |-> body, nreg |-> 0, id |-> 0]

\* Program::new followed by the parser's push_front calls: the functions in
\* source order, entry 0
Program(funcs) == [funcs |-> funcs, entry |-> 0]

-----------------------------------------------------------------------------
(* instr.rs: resolution                                                    *)

\* struct Binding: map and id.  The names are kept in insertion order, so
\* that map[name] is the position of name (0-based) and id is the length.
BindingNew == <<>>

BindingHas(bind, name) == \E i \in 1..Len(bind) : bind[i] = name

\* an insert that takes a fresh id for every occurrence of a name
BindingInsertAlways(bind, name) == Append(bind, name)

\* Binding::insert
BindingInsert(bind, name) ==
    IF BindingHas(bind, name) THEN bind ELSE Append(bind, name)

\* Binding::get (of a name that is bound)
BindingGet(bind, name) == (CHOOSE i \in 1..Len(bind) : bind[i] = name) - 1

\* an Operand::init that adds the bound slot to the id the operand carries
OperandInitAccumulates(operand, bind) ==
    IF operand.kind = "Reg"
    THEN LET b == BindingInsert(bind, operand.name)
         IN [operand |-> [operand EXCEPT
                            !.id = operand.id + BindingGet(b, operand.name)],
             bind |-> b]
    ELSE [operand |-> operand, bind |-> bind]

\* Operand::init: the operand and the binding after the call
OperandInit(operand, bind) ==
    IF operand.kind = "Reg"
    THEN LET b == BindingInsert(bind, operand.name)
         IN [operand |-> [operand EXCEPT !.id = BindingGet(b, operand.name)],
             bind |-> b]
    ELSE [operand |-> operand, bind |-> bind]

\* Instr::bind: the operands of the variant in the order x, y, z (Label and
\* Goto have none)
InstrBind(instr, bind) ==
    LET rx == OperandInit(instr.x, bind)
        ry == OperandInit(instr.y, rx.bind)
        rz == OperandInit(instr.z, ry.bind)
    IN [instr |-> [instr EXCEPT !.x = rx.operand, !.y = ry.operand,
                                !.z = rz.operand],
        bind |-> rz.bind]

\* the second loop of Func::init: bind the instructions in order
RECURSIVE BindBody(_, _, _)
BindBody(body, i, bind) ==
    IF i > Len(body)
    THEN [body |-> body, bind |-> bind]
    ELSE LET r == InstrBind(body[i], bind)
         IN BindBody([body EXCEPT ![i] = r.instr], i + 1, r.bind)

\* the label map of Func::init: each Label's own index, a later Label of the
\* same name replacing an earlier one (HashMap::insert)
LabelNames(body) ==
    {body[i].name : i \in {j \in 1..Len(body) : body[j].op = "Label"}}

\* a label index that counts the instructions from 1
LabelIndexOneBased(body, name) ==
    LET at == {i \in 1..Len(body) : body[i].op = "Label" /\ body[i].name = name}
    IN CHOOSE i \in at : \A j \in at : j <= i

LabelIndex(body, name) ==
    LET at == {i \in 1..Len(body) : body[i].op = "Label" /\ body[i].name = name}
    IN (CHOOSE i \in at : \A j \in at : j <= i) - 1

\* a label lookup that answers 0 for a name that is not in the map
LabelGetOrDefault(body, name) ==
    IF name \in LabelNames(body)
    THEN [some |-> TRUE, id |-> LabelIndex(body, name)]
    ELSE [some |-> TRUE, id |-> 0]

\* map.get(name) on the label map: Some(id) or None
LabelGet(body, name) ==
    IF name \in LabelNames(body)
    THEN [some |-> TRUE, id |-> LabelIndex(body, name)]
    ELSE [some |-> FALSE, id |-> 0]

\* Func::init panics (unwrap) on a Goto or Cond whose label is not in the map
FuncInitPanics(func) ==
    \E i \in 1..Len(func.body) :
        /\ func.body[i].op \in {"Goto", "Cond"}
        /\ ~LabelGet(func.body, func.body[i].name).some

\* a Func::init that leaves nreg as the parser built it
FuncInitKeepsNreg(func) ==
    LET jumps == [i \in 1..Len(func.body) |->
                    IF func.body[i].op \in {"Goto", "Cond"}
                    THEN [func.body[i] EXCEPT
                            !.id = LabelGet(func.body, func.body[i].name).id]
                    ELSE func.body[i]]
        r == BindBody(jumps, 1, BindingNew)
    IN [func EXCEPT !.body = r.body]

\* Func::init
FuncInit(func) ==
    LET jumps == [i \in 1..Len(func.body) |->
                    IF func.body[i].op \in {"Goto", "Cond"}
                    THEN [func.body[i] EXCEPT
                            !.id = LabelGet(func.body, func.body[i].name).id]
                    ELSE func.body[i]]
        r == BindBody(jumps, 1, BindingNew)
    IN [func EXCEPT !.body = r.body, !.nreg = Len(r.bind)]

\* the function-name map of Program::init: a later function of the same
\* name replaces an earlier one
FuncNames(funcs) == {funcs[i].name : i \in 1..Len(funcs)}

\* a function index that counts the functions from 1
FuncIndexOneBased(funcs, name) ==
    LET at == {i \in 1..Len(funcs) : funcs[i].name = name}
    IN CHOOSE i \in at : \A j \in at : j <= i

FuncIndex(funcs, name) ==
    LET at == {i \in 1..Len(funcs) : funcs[i].name = name}
    IN (CHOOSE i \in at : \A j \in at : j <= i) - 1

\* map.get(name) on the function-name map: Some(id) or None
FuncGet(funcs, name) ==
    IF name \in FuncNames(funcs)
    THEN [some |-> TRUE, id |-> FuncIndex(funcs, name)]
    ELSE [some |-> FALSE, id |-> 0]

\* the name Program::init looks the entry up by
EntryName == "main"

\* an entry lookup that keeps the entry 0 of Program::new when no function
\* is named main
EntryLookupDefault(funcs) ==
    IF EntryName \in FuncNames(funcs)
    THEN [some |-> TRUE, id |-> FuncIndex(funcs, EntryName)]
    ELSE [some |-> TRUE, id |-> 0]

\* map.get(&String::from("main")): Some(id) or None
EntryLookup(funcs) ==
    IF EntryName \in FuncNames(funcs)
    THEN [some |-> TRUE, id |-> FuncIndex(funcs, EntryName)]
    ELSE [some |-> FALSE, id |-> 0]

\* Program::init panics: in a Func::init, on the missing entry (expect), or
\* on a Call of a name that is not in the map
ProgramInitPanics(p) ==
    \/ \E i \in 1..Len(p.funcs) : FuncInitPanics(p.funcs[i])
    \/ ~EntryLookup(p.funcs).some
    \/ \E i \in 1..Len(p.funcs) : \E j \in 1..Len(p.funcs[i].body) :
            /\ p.funcs[i].body[j].op = "Call"
            /\ ~FuncGet(p.funcs, p.funcs[i].body[j].name).some

\* the message of the first panic of Program::init
ProgramInitMessage(p) ==
    CASE \E i \in 1..Len(p.funcs) : FuncInitPanics(p.funcs[i]) ->
            "unresolved label"
      [] ~EntryLookup(p.funcs).some -> "no main function found"
      [] OTHER -> "unresolved call"

\* Program::init (when it does not panic)
ProgramInit(p) ==
    LET inited == [i \in 1..Len(p.funcs) |-> FuncInit(p.funcs[i])]
        resolve(instr) ==
            IF instr.op = "Call"
            THEN [instr EXCEPT !.id = FuncGet(inited, instr.name).id]
            ELSE instr
    IN [funcs |-> [i \in 1..Len(inited) |->
                     [inited[i] EXCEPT
                        !.id = FuncGet(inited, inited[i].name).id,
                        !.body = [j \in 1..Len(inited[i].body) |->
                                    resolve(inited[i].body[j])]]],
        entry |-> EntryLookup(inited).id]

\* Program::fetch; the index panics past the end of the body
FetchPanics(p, frame) == frame.pc >= Len(p.funcs[frame.func + 1].body)

fetch(p, frame) == p.funcs[frame.func + 1].body[frame.pc + 1]

-----------------------------------------------------------------------------
(* env.rs                                                                  *)

\* a Frame::new with exactly nreg slots
FrameNewExact(func) ==
    [map |-> [i \in 1..func.nreg |-> DefaultValue],
     pc |-> 0,
     func |-> func.id]

\* a Frame::new that leaves func at 0
FrameNewFuncZero(func) ==
    [map |-> [i \in 1..(func.nreg + 1) |-> DefaultValue],
     pc |-> 0,
     func |-> 0]

\* Frame::new
FrameNew(func) ==
    [map |-> [i \in 1..(func.nreg + 1) |-> DefaultValue],
     pc |-> 0,
     func |-> func.id]

\* Env::new: the stack (args is empty)
EnvNew(p) == <<FrameNew(p.funcs[p.entry + 1])>>

\* Env::top_frame
top_frame(stk) == stk[Len(stk)]

\* Env::pc and Env::pc_next
pc(stk) == top_frame(stk).pc

pc_next(stk) == top_frame(stk).pc + 1

\* Env::pc_set
pc_set(stk, next_pc) == [stk EXCEPT ![Len(stk)].pc = next_pc]

\* Frame::get: None outside the map
FrameHas(frame, id) == id < Len(frame.map)

\* Env::get
EnvGet(stk, operand) ==
    IF operand.kind = "Imm"
    THEN new_int(operand.int)
    ELSE IF FrameHas(top_frame(stk), operand.id)
         THEN top_frame(stk).map[operand.id + 1]
         ELSE Fault("undefined")

\* Env::set panics in Frame::set when the slot is outside the map
EnvSetPanics(stk, operand) ==
    operand.kind = "Reg" /\ ~FrameHas(top_frame(stk), operand.id)

\* an Env::set that writes the bottom frame (one register file for the run)
EnvSetBottom(stk, operand, value) ==
    IF operand.kind = "Reg"
    THEN [stk EXCEPT ![1].map[operand.id + 1] = value]
    ELSE stk

\* an Env::set that writes the register in every activation of the top
\* frame's function (one register file per function)
EnvSetSameFunc(stk, operand, value) ==
    IF operand.kind = "Reg"
    THEN [i \in 1..Len(stk) |->
            IF stk[i].func = stk[Len(stk)].func
            THEN [stk[i] EXCEPT !.map[operand.id + 1] = value]
            ELSE stk[i]]
    ELSE stk

\* Env::set: a register operand is written in the top frame, any other
\* operand is ignored
EnvSet(stk, operand, value) ==
    IF operand.kind = "Reg"
    THEN [stk EXCEPT ![Len(stk)].map[operand.id + 1] = value]
    ELSE stk

\* Env::push_arg
push_arg(as, value) == Append(as, value)

\* a pop_arg that hands out the oldest argument first
pop_arg_value_oldest(as) == as[1]

\* Env::pop_arg: the value popped and the stack left (of a non-empty stack)
pop_arg_value(as) == as[Len(as)]

pop_arg_rest(as) == SubSeq(as, 1, Len(as) - 1)

\* Env::push_frame
push_frame(stk, func) == Append(stk, FrameNew(func))

\* Env::pop_frame
pop_frame(stk) == SubSeq(stk, 1, Len(stk) - 1)

-----------------------------------------------------------------------------
(* The input stream: a sequence of lines, each a sequence of characters.   *)

Digits == <<"0", "1", "2", "3", "4", "5", "6", "7", "8", "9">>

IsDigit(c) == \E d \in 1..Len(Digits) : Digits[d] = c

DigitValue(c) == (CHOOSE d \in 1..Len(Digits) : Digits[d] = c) - 1

IsSpace(c) == c \in {" ", "\t", "\n", "\r"}

\* str::trim
RECURSIVE TrimStart(_)
TrimStart(cs) ==
    IF cs # <<>> /\ IsSpace(Head(cs)) THEN TrimStart(Tail(cs)) ELSE cs

RECURSIVE TrimEnd(_)
TrimEnd(cs) ==
    IF cs # <<>> /\ IsSpace(cs[Len(cs)])
    THEN TrimEnd(SubSeq(cs, 1, Len(cs) - 1))
    ELSE cs

Trim(cs) == TrimEnd(TrimStart(cs))

\* the value of a digit string, most significant digit first
RECURSIVE DigitsValue(_, _)
DigitsValue(cs, acc) ==
    IF cs = <<>> THEN acc
    ELSE DigitsValue(Tail(cs), acc * 10 + DigitValue(Head(cs)))

\* str::parse for an integer: an optional sign and at least one digit
ParseOk(cs) ==
    LET body == IF cs # <<>> /\ Head(cs) \in {"+", "-"} THEN Tail(cs) ELSE cs
    IN body # <<>> /\ \A i \in 1..Len(body) : IsDigit(body[i])

\* a parse that reads the digits and drops the sign
ParseIntIgnoresSign(cs) ==
    IF Head(cs) \in {"+", "-"} THEN DigitsValue(Tail(cs), 0)
    ELSE DigitsValue(cs, 0)

ParseInt(cs) ==
    IF Head(cs) = "-" THEN 0 - DigitsValue(Tail(cs), 0)
    ELSE IF Head(cs) = "+" THEN DigitsValue(Tail(cs), 0)
    ELSE DigitsValue(cs, 0)

\* an input line holding the number n (0..99), as a user would type it
DecimalLine(n) ==
    IF n < 10 THEN <<Digits[n + 1], "\n">>
    ELSE <<Digits[(n \div 10) + 1], Digits[(n % 10) + 1], "\n">>

-----------------------------------------------------------------------------
(* The programs the interpreter is run on, as the parser hands them over.  *)

\* exec.rs test_exec
ProgExec ==
    Program(<<
        Func("main", <<
            Arith(Reg("x"), Imm(114), "Mul", Imm(514)),
            Arith(Reg("y"), Imm(0), "Sub", Reg("x")),
            Write(Reg("y")),
            Return(Imm(0)) >>) >>)

\* exec.rs test_arg
ProgArg ==
    Program(<<
        Func("id", <<
            Param(Reg("n")),
            Return(Reg("n")) >>),
        Func("main", <<
            Arg(Imm(114)),
            Call(Reg("x"), "id"),
            Arg(Imm(514)),
            Call(Reg("y"), "id"),
            Write(Reg("x")),
            Write(Reg("y")),
            Return(Imm(0)) >>) >>)

\* exec.rs test_fib
ProgFib ==
    Program(<<
        Func("fib", <<
            Param(Reg("n")),
            Cond(Reg("n"), "NE", Imm(0), "br1"),
            Return(Imm(0)),
            Label("br1"),
            Cond(Reg("n"), "NE", Imm(1), "br2"),
            Return(Imm(1)),
            Label("br2"),
            Arith(Reg("t1"), Reg("n"), "Sub", Imm(1)),
            Arg(Reg("t1")),
            Call(Reg("r1"), "fib"),
            Arith(Reg("t2"), Reg("n"), "Sub", Imm(2)),
            Arg(Reg("t2")),
            Call(Reg("r2"), "fib"),
            Arith(Reg("u"), Reg("r1"), "Add", Reg("r2")),
            Return(Reg("u")) >>),
        Func("main", <<
            Read(Reg("n")),
            Arg(Reg("n")),
            Call(Reg("s"), "fib"),
            Write(Reg("s")),
            Return(Imm(0)) >>) >>)

\* exec.rs test_arr
ProgArr ==
    Program(<<
        Func("display", <<
            Param(Reg("arr1")),
            Load(Reg("c"), Reg("arr1")),
            Write(Reg("c")),
            Arith(Reg("d"), Reg("arr1"), "Add", Imm(4)),
            Load(Reg("c"), Reg("d")),
            Write(Reg("c")),
            Return(Imm(0)) >>),
        Func("main", <<
            Dec(Reg("tmp_1"), 24),
            Deref(Reg("arr2"), Reg("tmp_1")),
            Store(Reg("arr2"), Imm(114)),
            Arith(Reg("tmp"), Reg("arr2"), "Add", Imm(4)),
            Store(Reg("tmp"), Imm(514)),
            Arg(Reg("arr2")),
            Call(Reg("uu"), "display"),
            Return(Imm(0)) >>) >>)

\* three arguments: pick(a, b, c) returns 100 a + 10 b + c
ProgArgs3 ==
    Program(<<
        Func("pick", <<
            Param(Reg("a")),
            Param(Reg("b")),
            Param(Reg("c")),
            Arith(Reg("t"), Reg("a"), "Mul", Imm(100)),
            Arith(Reg("u"), Reg("b"), "Mul", Imm(10)),
            Arith(Reg("t"), Reg("t"), "Add", Reg("u")),
            Arith(Reg("t"), Reg("t"), "Add", Reg("c")),
            Return(Reg("t")) >>),
        Func("main", <<
            Read(Reg("n")),
            Arg(Imm(1)),
            Arg(Imm(2)),
            Arg(Reg("n")),
            Call(Reg("r"), "pick"),
            Write(Reg("r")),
            Return(Imm(0)) >>) >>)

\* a loop with Goto, after instr.rs test_init: foo(n) returns 1 + ... + n
ProgLoop ==
    Program(<<
        Func("foo", <<
            Param(Reg("n")),
            Assign(Reg("i"), Imm(0)),
            Assign(Reg("s"), Imm(0)),
            Label("loop"),
            Cond(Reg("i"), "GE", Reg("n"), "done"),
            Arith(Reg("i"), Reg("i"), "Add", Imm(1)),
            Arith(Reg("s"), Reg("s"), "Add", Reg("i")),
            Goto("loop"),
            Label("done"),
            Return(Reg("s")) >>),
        Func("main", <<
            Read(Reg("n2")),
            Arg(Reg("n2")),
            Call(Reg("s"), "foo"),
            Write(Reg("s")),
            Return(Imm(0)) >>) >>)

\* main calls itself: the inner activation reads 0 and returns
ProgRecMain ==
    Program(<<
        Func("main", <<
            Read(Reg("n")),
            Cond(Reg("n"), "LE", Imm(0), "stop"),
            Call(Reg("x"), "main"),
            Write(Reg("x")),
            Label("stop"),
            Return(Reg("n")) >>) >>)

\* main comes second and never calls the first function
ProgUnused ==
    Program(<<
        Func("helper", <<
            Param(Reg("a")),
            Return(Reg("a")) >>),
        Func("main", <<
            Assign(Reg("v"), Imm(7)),
            Write(Reg("v")),
            Return(Reg("v")) >>) >>)

\* no function is named main
ProgNoMain ==
    Program(<<
        Func("foo", <<
            Write(Imm(1)),
            Return(Imm(0)) >>) >>)

\* main runs past its last instruction
ProgFallOff ==
    Program(<<
        Func("main", <<
            Write(Imm(1)) >>) >>)

\* a Param with nothing on the argument stack
ProgParamEmpty ==
    Program(<<
        Func("main", <<
            Assign(Reg("x"), Imm(5)),
            Param(Reg("x")),
            Write(Reg("x")),
            Return(Imm(0)) >>) >>)

\* a division by the number read
ProgDiv ==
    Program(<<
        Func("main", <<
            Assign(Reg("y"), Imm(9)),
            Read(Reg("z")),
            Arith(Reg("y"), Imm(7), "Div", Reg("z")),
            Write(Reg("y")),
            Return(Imm(0)) >>) >>)

\* a sum that leaves i32
ProgOverflow ==
    Program(<<
        Func("main", <<
            Arith(Reg("x"), Imm(I32Max), "Add", Imm(1)),
            Write(Reg("x")),
            Return(Imm(0)) >>) >>)

\* an operation on two pointers, from two Decs
ProgPtrArith(op) ==
    Program(<<
        Func("main", <<
            Dec(Reg("a"), 2),
            Dec(Reg("b"), 2),
            Assign(Reg("x"), Imm(5)),
            Arith(Reg("x"), Reg("a"), op, Reg("b")),
            Write(Reg("x")),
            Return(Imm(0)) >>) >>)

\* the RelOp variants
RelOps == {"LT", "LE", "GT", "GE", "EQ", "NE"}

\* a comparison of a pointer with y: with itself, with another pointer, or
\* with an integer
ProgPtrCond(op, y) ==
    Program(<<
        Func("main", <<
            Dec(Reg("a"), 2),
            Dec(Reg("b"), 2),
            Cond(Reg("a"), op, y, "skip"),
            Write(Imm(1)),
            Label("skip"),
            Write(Imm(2)),
            Return(Imm(0)) >>) >>)

\* three Reads, the second one in a callee; each destination is assigned
\* before it is read into
ProgRead3 ==
    Program(<<
        Func("foo", <<
            Assign(Reg("a"), Imm(8)),
            Read(Reg("a")),
            Return(Reg("a")) >>),
        Func("main", <<
            Assign(Reg("x"), Imm(7)),
            Read(Reg("x")),
            Call(Reg("y"), "foo"),
            Assign(Reg("z"), Imm(9)),
            Read(Reg("z")),
            Write(Reg("x")),
            Write(Reg("y")),
            Write(Reg("z")),
            Return(Imm(0)) >>) >>)

\* the digits of n (0..99) with a minus sign when n is negative
SignedDigits(n) ==
    LET m == IF n < 0 THEN -n ELSE n
        ds == IF m < 10 THEN <<Digits[m + 1]>>
              ELSE <<Digits[(m \div 10) + 1], Digits[(m % 10) + 1]>>
    IN IF n < 0 THEN <<"-">> \o ds ELSE ds

\* lines that hold a number: bare, without the final newline, with blanks
\* around it and a carriage return, with a plus sign
GoodLines ==
    {SignedDigits(n) \o <<"\n">> : n \in -1..MaxArgIn}
    \cup {SignedDigits(n) : n \in -1..MaxArgIn}
    \cup {<<" ">> \o SignedDigits(n) \o <<"\t", "\r", "\n">> :
            n \in -1..MaxArgIn}
    \cup {<<"+">> \o SignedDigits(n) \o <<"\n">> : n \in 0..MaxArgIn}

\* lines that hold no number: blank, a word, two numbers, a sign alone, a
\* number with a letter, a sign after the digits
BadLines ==
    {<<"\n">>,
     <<"x", "\n">>,
     <<"1", " ", "2", "\n">>,
     <<"-", "\n">>,
     <<"1", "x", "\n">>,
     <<"1", "-", "\n">>}

\* the inputs of the three Reads: every line in every place among lines
\* that hold 1 and 2, and the inputs that end early
ReadInputs ==
    LET one == DecimalLine(1)
        two == DecimalLine(2)
    IN {<<>>, <<one>>, <<one, two>>}
       \cup {<<l, one, two>> : l \in GoodLines \cup BadLines}
       \cup {<<one, l, two>> : l \in GoodLines \cup BadLines}
       \cup {<<one, two, l>> : l \in GoodLines \cup BadLines}

\* a comparison of the number read with 1
ProgIntCond(op) ==
    Program(<<
        Func("main", <<
            Read(Reg("n")),
            Cond(Reg("n"), op, Imm(1), "skip"),
            Write(Imm(1)),
            Label("skip"),
            Write(Imm(2)),
            Return(Imm(0)) >>) >>)

\* one Dec executed twice: mk is called for p and for q; q is loaded before
\* any Store, then p is stored through and both are loaded
ProgTwoDec ==
    Program(<<
        Func("mk", <<
            Dec(Reg("b"), 2),
            Return(Reg("b")) >>),
        Func("main", <<
            Call(Reg("p"), "mk"),
            Call(Reg("q"), "mk"),
            Load(Reg("c"), Reg("q")),
            Store(Reg("p"), Imm(5)),
            Load(Reg("d"), Reg("q")),
            Write(Reg("d")),
            Return(Imm(0)) >>) >>)

\* main comes first and calls the function after it
ProgMainFirst ==
    Program(<<
        Func("main", <<
            Call(Reg("x"), "three"),
            Write(Reg("x")),
            Return(Imm(0)) >>),
        Func("three", <<
            Return(Imm(3)) >>) >>)

\* two functions share a name: the Call resolves to the later one, which
\* uses fewer registers than the earlier one
ProgDupFunc ==
    Program(<<
        Func("f", <<
            Assign(Reg("a"), Imm(1)),
            Assign(Reg("b"), Imm(2)),
            Arith(Reg("c"), Reg("a"), "Add", Reg("b")),
            Return(Reg("c")) >>),
        Func("f", <<
            Return(Imm(4)) >>),
        Func("main", <<
            Call(Reg("x"), "f"),
            Write(Reg("x")),
            Return(Imm(0)) >>) >>)

\* the element count of the buffer of the program below
OobSize == 2

\* a pointer moved inside, to the end of, past and before a buffer of
\* OobSize cells, then used by a Load, a Store of an integer or a Store of
\* a pointer
ProgOob(op, k, use) ==
    Program(<<
        Func("main", <<
            Dec(Reg("a"), OobSize),
            Arith(Reg("p"), Reg("a"), op, Imm(k)),
            Assign(Reg("c"), Imm(9)),
            use,
            Write(Reg("c")),
            Return(Imm(0)) >>) >>)

\* the moves: a + 0 .. a + OobSize + 1 and a - 1
OobMoves ==
    {<<"Add", k>> : k \in 0..(OobSize + 1)} \cup {<<"Sub", 1>>}

\* the uses of the moved pointer
OobUses ==
    {Load(Reg("c"), Reg("p")),
     Store(Reg("p"), Imm(7)),
     Store(Reg("p"), Reg("c")),
     Store(Reg("p"), Reg("a"))}

\* a run: the program, the lines of the input stream and the build profile
Test(name, code, input) ==
    [name |-> name, code |-> code, input |-> input, profile |-> "debug"]

\* the two cargo profiles: dev has overflow checks, release has none
Profiles == {"debug", "release"}

\* the same run under another build of the interpreter
Built(t, profile) == [t EXCEPT !.profile = profile]

Tests ==
    {Test("exec", ProgExec, <<>>),
     Test("arg", ProgArg, <<>>),
     Test("arr", ProgArr, <<>>),
     Test("nomain", ProgNoMain, <<>>),
     Test("falloff", ProgFallOff, <<>>),
     Test("unused", ProgUnused, <<>>),
     Test("paramempty", ProgParamEmpty, <<>>),
     Test("twodec", ProgTwoDec, <<>>),
     Test("dupfunc", ProgDupFunc, <<>>),
     Test("mainfirst", ProgMainFirst, <<>>),
     Test("overflow", ProgOverflow, <<>>),
     Test("recmain", ProgRecMain, <<DecimalLine(1), DecimalLine(0)>>)}
    \cup {Test("fib", ProgFib, <<DecimalLine(n)>>) : n \in 0..MaxFibN}
    \cup {Test("args3", ProgArgs3, <<DecimalLine(n)>>) : n \in 0..MaxArgIn}
    \cup {Test("loop", ProgLoop, <<DecimalLine(n)>>) : n \in 0..MaxArgIn}
    \cup {Test("div", ProgDiv, <<DecimalLine(n)>>) : n \in 0..MaxArgIn}
    \cup {Test("ptrarith", ProgPtrArith(op), <<>>) : op \in ArithOps}
    \cup {Test("oob", ProgOob(m[1], m[2], use), <<>>) :
            m \in OobMoves, use \in OobUses}
    \cup {Test("read3", ProgRead3, input) : input \in ReadInputs}
    \cup {Test("intcond", ProgIntCond(op), <<DecimalLine(n)>>) :
            op \in RelOps, n \in 0..MaxArgIn}
    \cup {Test("ptrcond", ProgPtrCond(op, y), <<>>) :
            op \in RelOps, y \in {Reg("a"), Reg("b"), Imm(0)}}

-----------------------------------------------------------------------------
(* exec.rs                                                                 *)

\* before Interpreter::new: the parsed program and the streams
Init ==
    /\ test \in {Built(t, profile) : t \in Tests, profile \in Profiles}
    /\ phase = "new"
    /\ program = test.code
    /\ stack = <<>>
    /\ args = <<>>
    /\ fin = test.input
    /\ fout = <<>>
    /\ instr_cnt = 0
    /\ fault = ""
    /\ nalloc = 0
    /\ expect = <<>>

\* a panic: the process aborts, with env as the handler left it
Panic(msg, stk, as) ==
    /\ phase' = "panic"
    /\ fault' = msg
    /\ stack' = stk
    /\ args' = as

\* one turn of the loop of exec after step returned Some(next_pc): pc_set
\* and the count
Continue(stk, as, next_pc) ==
    /\ phase' = "running"
    /\ fault' = fault
    /\ stack' = pc_set(stk, next_pc)
    /\ args' = as
    /\ instr_cnt' = instr_cnt + 1

\* Interpreter::new: program.init(), then Env::new
New ==
    /\ phase = "new"
    /\ IF ProgramInitPanics(program)
       THEN /\ Panic(ProgramInitMessage(program), stack, args)
            /\ UNCHANGED program
       ELSE /\ program' = ProgramInit(program)
            /\ stack' = EnvNew(ProgramInit(program))
            /\ phase' = "running"
            /\ UNCHANGED <<args, fault>>
    /\ UNCHANGED <<test, fin, fout, instr_cnt, nalloc, expect>>

\* step is entered with this instruction
Fetches(op) ==
    /\ phase = "running"
    /\ ~FetchPanics(program, top_frame(stack))
    /\ fetch(program, top_frame(stack)).op = op

instr == fetch(program, top_frame(stack))

\* Program::fetch indexes past the end of the body
StepFetchPanic ==
    /\ phase = "running"
    /\ FetchPanics(program, top_frame(stack))
    /\ Panic("index out of bounds", stack, args)
    /\ UNCHANGED <<test, program, fin, fout, instr_cnt, nalloc, expect>>

\* the arms of step that write one computed value to instr.x and go on
SetAndContinue(value) ==
    IF IsFault(value)
    THEN Panic(value.msg, stack, args) /\ UNCHANGED instr_cnt
    ELSE IF EnvSetPanics(stack, instr.x)
         THEN Panic("index out of bounds", stack, args) /\ UNCHANGED instr_cnt
         ELSE Continue(EnvSet(stack, instr.x, value), args, pc_next(stack))

StepArith ==
    /\ Fetches("Arith")
    /\ LET vy == EnvGet(stack, instr.y)
           vz == EnvGet(stack, instr.z)
       IN SetAndContinue(Arith2(instr.aop, vy, vz))
    /\ UNCHANGED <<test, program, fin, fout, nalloc, expect>>

StepAssign ==
    /\ Fetches("Assign")
    /\ SetAndContinue(EnvGet(stack, instr.y))
    /\ UNCHANGED <<test, program, fin, fout, nalloc, expect>>

StepDeref ==
    /\ Fetches("Deref")
    /\ SetAndContinue(EnvGet(stack, instr.y))
    /\ UNCHANGED <<test, program, fin, fout, nalloc, expect>>

\* the Value that Store stores through: env.get returns a clone, and the
\* store goes into that clone, which is dropped at the end of the arm
StoreTarget(stk, operand) == EnvGet(stk, operand)

StepStore ==
    /\ Fetches("Store")
    /\ LET val == EnvGet(stack, instr.y)
           addr == StoreTarget(stack, instr.x)
       IN IF IsFault(store(addr, val))
          THEN Panic(store(addr, val).msg, stack, args) /\ UNCHANGED instr_cnt
          ELSE Continue(stack, args, pc_next(stack))
    /\ UNCHANGED <<test, program, fin, fout, nalloc, expect>>

StepLoad ==
    /\ Fetches("Load")
    /\ SetAndContinue(load(EnvGet(stack, instr.y)))
    /\ UNCHANGED <<test, program, fin, fout, nalloc, expect>>

StepArg ==
    /\ Fetches("Arg")
    /\ LET value == EnvGet(stack, instr.x)
       IN IF IsFault(value)
          THEN Panic(value.msg, stack, args) /\ UNCHANGED instr_cnt
          ELSE Continue(stack, push_arg(args, value), pc_next(stack))
    /\ UNCHANGED <<test, program, fin, fout, nalloc, expect>>

\* a Param that binds the default value when the argument stack is empty
StepParamDefault ==
    /\ Fetches("Param")
    /\ IF args = <<>>
       THEN Continue(EnvSet(stack, instr.x, DefaultValue), args,
                     pc_next(stack))
       ELSE Continue(EnvSet(stack, instr.x, pop_arg_value(args)),
                     pop_arg_rest(args), pc_next(stack))
    /\ UNCHANGED <<test, program, fin, fout, nalloc, expect>>

StepParam ==
    /\ Fetches("Param")
    /\ IF args = <<>>
       THEN Panic("arg stack empty", stack, args) /\ UNCHANGED instr_cnt
       ELSE IF EnvSetPanics(stack, instr.x)
            THEN /\ Panic("index out of bounds", stack, pop_arg_rest(args))
                 /\ UNCHANGED instr_cnt
            ELSE Continue(EnvSet(stack, instr.x, pop_arg_value(args)),
                          pop_arg_rest(args), pc_next(stack))
    /\ UNCHANGED <<test, program, fin, fout, nalloc, expect>>

StepLabel ==
    /\ Fetches("Label")
    /\ Continue(stack, args, pc_next(stack))
    /\ UNCHANGED <<test, program, fin, fout, nalloc, expect>>

\* read_line takes the next line, or nothing at the end of the input
ReadLine(lines) == IF lines = <<>> THEN <<>> ELSE Head(lines)

\* a Read that binds 0 when the line is not a number or is missing
StepReadDefault ==
    /\ Fetches("Read")
    /\ fin' = IF fin = <<>> THEN fin ELSE Tail(fin)
    /\ LET buf == Trim(ReadLine(fin))
       IN IF ParseOk(buf)
          THEN SetAndContinue(new_int(ParseInt(buf)))
          ELSE SetAndContinue(new_int(0))
    /\ UNCHANGED <<test, program, fout, nalloc, expect>>

StepRead ==
    /\ Fetches("Read")
    /\ fin' = IF fin = <<>> THEN fin ELSE Tail(fin)
    /\ LET buf == Trim(ReadLine(fin))
       IN IF ParseOk(buf)
          THEN SetAndContinue(new_int(ParseInt(buf)))
          ELSE Panic("input error", stack, args) /\ UNCHANGED instr_cnt
    /\ UNCHANGED <<test, program, fout, nalloc, expect>>

\* writeln!(self.fout, "{value}"): the Display of the value and a newline
StepWrite ==
    /\ Fetches("Write")
    /\ LET value == EnvGet(stack, instr.x)
       IN IF IsFault(value) \/ DisplayPanics(value)
          THEN /\ Panic(IF IsFault(value) THEN value.msg ELSE load(value).msg,
                        stack, args)
               /\ UNCHANGED <<instr_cnt, fout>>
          ELSE /\ fout' = fout \o Display(value) \o <<"\n">>
               /\ Continue(stack, args, pc_next(stack))
    /\ UNCHANGED <<test, program, fin, nalloc, expect>>

StepDec ==
    /\ Fetches("Dec")
    /\ nalloc' = nalloc + 1
    /\ SetAndContinue(new_ptr(instr.size, nalloc + 1))
    /\ UNCHANGED <<test, program, fin, fout, expect>>

\* a Call that also advances the caller's pc before it pushes
StepCallAdvancing ==
    /\ Fetches("Call")
    /\ LET pushed == push_frame(pc_set(stack, pc_next(stack)),
                                program.funcs[instr.id + 1])
       IN Continue(pushed, args, pc(pushed))
    /\ UNCHANGED <<test, program, fin, fout, nalloc, expect>>

\* push_frame, then Some(env.pc()): the pc of the new top frame
StepCall ==
    /\ Fetches("Call")
    /\ LET pushed == push_frame(stack, program.funcs[instr.id + 1])
       IN Continue(pushed, args, pc(pushed))
    /\ UNCHANGED <<test, program, fin, fout, nalloc, expect>>

\* an entry test against the first function instead of program.entry
IsEntryFrameFirstFunc(frame) == frame.func = 0

\* an entry test for the bottom frame of the stack only
IsEntryFrameBottom(frame) == Len(stack) = 1

\* the test Return makes first: is this the entry function's frame
IsEntryFrame(frame) == frame.func = program.entry

\* a Return that writes to the first slot of the caller, whatever the Call
\* names as its destination
ReturnDestSlot0(call) == [call.x EXCEPT !.id = 0]

\* the operand Return writes the value to: the x of the caller's Call
ReturnDest(call) == call.x

StepReturn ==
    /\ Fetches("Return")
    /\ IF IsEntryFrame(top_frame(stack))
       THEN /\ phase' = "halted"
            /\ UNCHANGED <<stack, args, fault, instr_cnt>>
       ELSE LET value == EnvGet(stack, instr.x)
                popped == pop_frame(stack)
                parked == fetch(program, top_frame(popped))
            IN IF IsFault(value)
               THEN Panic(value.msg, stack, args) /\ UNCHANGED instr_cnt
               ELSE IF popped = <<>>
               THEN Panic("unwrap on None", popped, args)
                    /\ UNCHANGED instr_cnt
               ELSE IF FetchPanics(program, top_frame(popped))
               THEN Panic("index out of bounds", popped, args)
                    /\ UNCHANGED instr_cnt
               ELSE IF parked.op # "Call"
               THEN Panic("return error", popped, args) /\ UNCHANGED instr_cnt
               ELSE IF EnvSetPanics(popped, ReturnDest(parked))
               THEN Panic("index out of bounds", popped, args)
                    /\ UNCHANGED instr_cnt
               ELSE Continue(EnvSet(popped, ReturnDest(parked), value), args,
                             pc_next(popped))
    /\ UNCHANGED <<test, program, fin, fout, nalloc, expect>>

StepGoto ==
    /\ Fetches("Goto")
    /\ Continue(stack, args, instr.id)
    /\ UNCHANGED <<test, program, fin, fout, nalloc, expect>>

StepCond ==
    /\ Fetches("Cond")
    /\ LET vx == EnvGet(stack, instr.x)
           vy == EnvGet(stack, instr.y)
       IN IF IsFault(vx) \/ IsFault(vy)
          THEN Panic("undefined", stack, args) /\ UNCHANGED instr_cnt
          ELSE IF RelHolds(instr.rop, vx, vy)
               THEN Continue(stack, args, instr.id)
               ELSE Continue(stack, args, pc_next(stack))
    /\ UNCHANGED <<test, program, fin, fout, nalloc, expect>>

Next ==
    \/ New
    \/ StepFetchPanic
    \/ StepArith
    \/ StepAssign
    \/ StepDeref
    \/ StepStore
    \/ StepLoad
    \/ StepArg
    \/ StepParam
    \/ StepLabel
    \/ StepRead
    \/ StepWrite
    \/ StepDec
    \/ StepCall
    \/ StepReturn
    \/ StepGoto
    \/ StepCond

Spec == Init /\ [][Next]_vars

-----------------------------------------------------------------------------
(* env.rs test_get_set, with any sequence of set, push_frame and pop_frame *)

\* the Func the test builds its frames from
EnvTestFunc == [name |-> "foo", body |-> <<>>, nreg |-> 2, id |-> 0]

EnvTestProgram == [funcs |-> <<EnvTestFunc>>, entry |-> 0]

\* Operand::from(("x", 0)) and Operand::from(("p", 1))
EnvTestOperands == {[Reg("x") EXCEPT !.id = 0], [Reg("p") EXCEPT !.id = 1]}

EnvTestValues == {new_int(114), new_int(1919), new_ptr(2, 0)}

InitEnv ==
    /\ test = Test("get_set", EnvTestProgram, <<>>)
    /\ phase = "env"
    /\ program = EnvTestProgram
    /\ stack = EnvNew(EnvTestProgram)
    /\ args = <<>>
    /\ fin = <<>>
    /\ fout = <<>>
    /\ instr_cnt = 0
    /\ fault = ""
    /\ nalloc = 0
    /\ expect = <<>>

\* env.set(operand, value)
EnvTestSet ==
    /\ phase = "env"
    /\ \E operand \in EnvTestOperands, value \in EnvTestValues :
          stack' = EnvSet(stack, operand, value)
    /\ UNCHANGED <<test, phase, program, args, fin, fout, instr_cnt, fault,
                   nalloc, expect>>

\* env.push_frame(&Func { .. }); the test remembers what the frame it
\* covers held
EnvTestPush ==
    /\ phase = "env"
    /\ Len(stack) < MaxEnvDepth
    /\ stack' = push_frame(stack, EnvTestFunc)
    /\ expect' = Append(expect, top_frame(stack).map)
    /\ UNCHANGED <<test, phase, program, args, fin, fout, instr_cnt, fault,
                   nalloc>>

\* env.pop_frame()
EnvTestPop ==
    /\ phase = "env"
    /\ Len(stack) > 1
    /\ stack' = pop_frame(stack)
    /\ expect' = SubSeq(expect, 1, Len(expect) - 1)
    /\ UNCHANGED <<test, phase, program, args, fin, fout, instr_cnt, fault,
                   nalloc>>

NextEnv ==
    \/ EnvTestSet
    \/ EnvTestPush
    \/ EnvTestPop

SpecEnv == InitEnv /\ [][NextEnv]_vars

-----------------------------------------------------------------------------
(* value.rs test_int and test_ptr, with any two operands and any operator, *)
(* and a second operation on the result and one of the operands; and a     *)
(* store of one operand through the other, and a load around it.           *)

\* the small integers among the operands are -MaxSampleInt..MaxSampleInt
MaxSampleInt == 2

\* integer operands: small ones, the ends of i32, and two whose square
\* leaves i32
IntSamples ==
    {new_int(i) :
        i \in (-MaxSampleInt..MaxSampleInt)
                \cup {I32Min, I32Min + 1, I32Max - 1, I32Max, 46341, 65536}}

\* test_ptr's p1 after p1.store(Value::ValInt(114))
TestPtr == store(new_ptr(4, 1), new_int(114))

\* pointer operands: p1 at offsets inside its buffer, at its end, and at
\* offsets only arithmetic can produce
PtrSamples ==
    {[TestPtr EXCEPT !.ptr = o] : o \in (0..TestPtr.size) \cup {-1, I32Max}}

ValueSamples == IntSamples \cup PtrSamples

InitValue ==
    /\ test \in {Built(Test("value", Program(<<>>), <<>>), profile) :
                    profile \in Profiles}
    /\ phase = "value"
    /\ program = test.code
    /\ stack = <<>>
    /\ args = <<>>
    /\ fin = <<>>
    /\ fout = <<>>
    /\ instr_cnt = 0
    /\ fault = ""
    /\ nalloc = 1
    /\ expect \in [v1 : ValueSamples, v2 : ValueSamples, op : {""},
                   r : {DefaultValue}, back : {""}, with : {0},
                   r2 : {DefaultValue}]

\* let r = v1 op v2
ValueTestArith ==
    /\ phase = "value"
    /\ \E op \in ArithOps :
        LET r == Arith2(op, expect.v1, expect.v2)
        IN /\ expect' = [expect EXCEPT !.op = op, !.r = r]
           /\ IF IsFault(r)
              THEN phase' = "panic" /\ fault' = r.msg
              ELSE phase' = "value_op" /\ UNCHANGED fault
    /\ UNCHANGED <<test, program, stack, args, fin, fout, instr_cnt, nalloc>>

\* let r2 = r back v1, or r back v2
ValueTestBack ==
    /\ phase = "value_op"
    /\ \E op \in ArithOps, with \in {1, 2} :
        LET v == IF with = 1 THEN expect.v1 ELSE expect.v2
            r2 == Arith2(op, expect.r, v)
        IN /\ expect' = [expect EXCEPT !.back = op, !.with = with, !.r2 = r2]
           /\ IF IsFault(r2)
              THEN phase' = "panic" /\ fault' = r2.msg
              ELSE phase' = "value_back" /\ UNCHANGED fault
    /\ UNCHANGED <<test, program, stack, args, fin, fout, instr_cnt, nalloc>>

\* v1.store(v2): r is v1 after the call
ValueTestStore ==
    /\ phase = "value"
    /\ LET r == store(expect.v1, expect.v2)
       IN /\ expect' = [expect EXCEPT !.op = "Store", !.r = r]
          /\ IF IsFault(r)
             THEN phase' = "panic" /\ fault' = r.msg
             ELSE phase' = "value_store" /\ UNCHANGED fault
    /\ UNCHANGED <<test, program, stack, args, fin, fout, instr_cnt, nalloc>>

\* let r2 = (r + k).load(), for a k that stays in or leaves the buffer
ValueTestLoad ==
    /\ phase = "value_store"
    /\ \E k \in (0 - TestPtr.size)..TestPtr.size :
        LET r2 == load(Arith2("Add", expect.r, new_int(k)))
        IN /\ expect' = [expect EXCEPT !.back = "Load", !.with = k, !.r2 = r2]
           /\ IF IsFault(r2)
              THEN phase' = "panic" /\ fault' = r2.msg
              ELSE phase' = "value_load" /\ UNCHANGED fault
    /\ UNCHANGED <<test, program, stack, args, fin, fout, instr_cnt, nalloc>>

NextValue ==
    \/ ValueTestArith
    \/ ValueTestBack
    \/ ValueTestStore
    \/ ValueTestLoad

SpecValue == InitValue /\ [][NextValue]_vars

-----------------------------------------------------------------------------
(* The resolution pass on its own: main.rs parses a program, calls         *)
(* Program::init on it and hands it to the interpreter, whose              *)
(* Interpreter::new calls Program::init again.                             *)

\* the longest body of a generated function
MaxBodyLen == 3

\* instr.rs test_init
ProgInit ==
    Program(<<
        Func("foo", <<
            Param(Reg("n")),
            Assign(Reg("i"), Imm(1)),
            Assign(Reg("s"), Imm(0)),
            Label("loop"),
            Arith(Reg("i"), Reg("i"), "Add", Imm(1)),
            Arith(Reg("s"), Reg("s"), "Add", Reg("i")),
            Cond(Reg("i"), "LE", Imm(100), "loop"),
            Return(Reg("s")) >>),
        Func("main", <<
            Read(Reg("n2")),
            Arg(Reg("n2")),
            Call(Reg("s"), "foo"),
            Write(Reg("s")),
            Return(Imm(0)) >>) >>)

\* the instructions the generated bodies are made of: three registers in
\* different orders, two labels, jumps to them, calls of three names
RawInstrs ==
    {Assign(Reg("a"), Reg("b")),
     Arith(Reg("b"), Reg("c"), "Add", Reg("a")),
     Label("L"),
     Label("M"),
     Goto("L"),
     Cond(Reg("c"), "LT", Imm(1), "M"),
     Call(Reg("a"), "f"),
     Call(Reg("c"), "g"),
     Call(Reg("b"), "main"),
     Return(Reg("b"))}

RawBodies == UNION {[1..n -> RawInstrs] : n \in 1..MaxBodyLen}

\* the second function of a generated program
RawTails ==
    {<<Label("L"), Return(Imm(0))>>,
     <<Call(Reg("c"), "f"), Return(Reg("c"))>>}

\* parsed programs: two functions, with or without a main, with or without
\* two functions of one name; and the programs of the tests
RawPrograms ==
    {Program(<<Func(n1, b1), Func(n2, b2)>>) :
        n1 \in {"f", "main"}, b1 \in RawBodies,
        n2 \in {"main", "g"}, b2 \in RawTails}
    \cup {t.code : t \in Tests}
    \cup {ProgInit}

InitResolve ==
    /\ test \in {Test("resolve", p, <<>>) : p \in RawPrograms}
    /\ phase = "parsed"
    /\ program = test.code
    /\ stack = <<>>
    /\ args = <<>>
    /\ fin = <<>>
    /\ fout = <<>>
    /\ instr_cnt = 0
    /\ fault = ""
    /\ nalloc = 0
    /\ expect = <<>>

\* main.rs: program.init()
MainInit ==
    /\ phase = "parsed"
    /\ IF ProgramInitPanics(program)
       THEN /\ Panic(ProgramInitMessage(program), stack, args)
            /\ UNCHANGED program
       ELSE /\ program' = ProgramInit(program)
            /\ phase' = "new"
            /\ UNCHANGED <<stack, args, fault>>
    /\ UNCHANGED <<test, fin, fout, instr_cnt, nalloc, expect>>

NextResolve ==
    \/ MainInit
    \/ New

SpecResolve == InitResolve /\ [][NextResolve]_vars

-----------------------------------------------------------------------------
(* The properties.                                                         *)

\* the function a frame runs
FuncOf(frame) == program.funcs[frame.func + 1]

\* one running step is about to execute this instruction
About(op) ==
    /\ phase = "running"
    /\ top_frame(stack).pc < Len(FuncOf(top_frame(stack)).body)
    /\ FuncOf(top_frame(stack)).body[top_frame(stack).pc + 1].op = op

\* C1: a Return executed in a frame that is not the entry function's
\* evaluates its operand in the callee's frame, pops that frame, writes the
\* value into the destination slot of the Call the caller's pc is parked
\* on, and sets the caller's pc to that Call's index + 1; no other slot of
\* the caller changes (nor does any frame below it).
C1_ReturnStep ==
    (About("Return") /\ top_frame(stack).func # program.entry) =>
        LET ret == FuncOf(top_frame(stack)).body[top_frame(stack).pc + 1]
            value == IF ret.x.kind = "Imm" THEN ValInt(ret.x.int)
                     ELSE top_frame(stack).map[ret.x.id + 1]
            caller == stack[Len(stack) - 1]
            call == FuncOf(caller).body[caller.pc + 1]
        IN /\ phase' = "running"
           /\ Len(stack') = Len(stack) - 1
           /\ call.op = "Call"
           /\ stack'[Len(stack')].map[call.x.id + 1] = value
           /\ stack'[Len(stack')].pc = caller.pc + 1
           /\ stack'[Len(stack')].func = caller.func
           /\ \A j \in 1..Len(caller.map) :
                j # call.x.id + 1 => stack'[Len(stack')].map[j] = caller.map[j]
           /\ \A i \in 1..(Len(stack) - 2) : stack'[i] = stack[i]

C1_ReturnWritesCallDest == [][C1_ReturnStep]_vars

\* C1 witness: a nested activation (not the bottom frame) has just been
\* returned into: the instruction before its pc is a Call whose destination
\* slot holds a value other than the default.
C1_Witness ==
    /\ phase = "running"
    /\ Len(stack) >= 2
    /\ top_frame(stack).pc > 0
    /\ LET prev == FuncOf(top_frame(stack)).body[top_frame(stack).pc]
       IN /\ prev.op = "Call"
          /\ prev.x.id # 0
          /\ top_frame(stack).map[prev.x.id + 1] # DefaultValue

\* C2: a Call pushes exactly one frame, for the resolved callee, with pc 0,
\* and leaves the caller's frame as it was (its pc on the Call); and no
\* step changes a frame that is below the top before and after it, so the
\* caller stays so for as long as the callee is active.
C2_CallStep ==
    /\ About("Call") =>
        LET call == FuncOf(top_frame(stack)).body[top_frame(stack).pc + 1]
        IN /\ Len(stack') = Len(stack) + 1
           /\ \A i \in 1..Len(stack) : stack'[i] = stack[i]
           /\ stack'[Len(stack')].pc = 0
           /\ stack'[Len(stack')].func = program.funcs[call.id + 1].id
           /\ program.funcs[call.id + 1].name = call.name
    /\ \A i \in 1..(Len(stack) - 1) : i < Len(stack') => stack'[i] = stack[i]

C2_CallPushesOneFrame == [][C2_CallStep]_vars

\* C2 witness: a callee two calls deep is running above callers parked on
\* their Call instructions.
C2_Witness ==
    /\ phase = "running"
    /\ Len(stack) >= 3
    /\ top_frame(stack).pc > 0
    /\ \A i \in 1..(Len(stack) - 1) :
          FuncOf(stack[i]).body[stack[i].pc + 1].op = "Call"

\* every value the environment holds: in a register of some frame or on the
\* argument stack
LiveValues(stk, as) ==
    UNION {{stk[i].map[j] : j \in 1..Len(stk[i].map)} : i \in 1..Len(stk)}
        \cup {as[k] : k \in 1..Len(as)}

\* the value of an operand of the instruction about to run, in the top frame
OperandValue(operand) ==
    IF operand.kind = "Imm" THEN ValInt(operand.int)
    ELSE top_frame(stack).map[operand.id + 1]

\* the instruction about to run
Current == FuncOf(top_frame(stack)).body[top_frame(stack).pc + 1]

\* C3: a Store of an integer through a pointer q at cell i is observed
\* through every pointer descending from the same Dec: after the step, each
\* such pointer held by the environment reads the stored integer at cell i.
C3_StoreStep ==
    (About("Store") /\ phase' = "running") =>
        LET q == OperandValue(Current.x)
            v == OperandValue(Current.y)
        IN (q.tag = "ptr" /\ v.tag = "int") =>
              \A p \in LiveValues(stack', args') :
                  (p.tag = "ptr" /\ p.alloc = q.alloc) =>
                      p.mem[q.ptr + 1] = v.int

C3_StoreSeenThroughAliases == [][C3_StoreStep]_vars

\* C4: a Return executed while the top frame belongs to the entry function
\* halts the machine: the step yields no next pc (the loop of exec ends),
\* nothing of the environment, the streams or the count changes, and no
\* step is taken from a halted machine.
C4_HaltStep ==
    /\ (About("Return") /\ top_frame(stack).func = program.entry) =>
          /\ phase' = "halted"
          /\ stack' = stack
          /\ args' = args
          /\ fin' = fin
          /\ fout' = fout
          /\ instr_cnt' = instr_cnt
    /\ phase # "halted"

C4_EntryReturnHalts == [][C4_HaltStep]_vars

\* C4 witness: the machine has halted on a Return of the entry function
\* after executing instructions.
C4_Witness ==
    /\ phase = "halted"
    /\ instr_cnt > 0
    /\ Current.op = "Return"
    /\ top_frame(stack).func = program.entry

\* C5: from the initial environment on (while running, when halted, and in
\* the state a panic of step leaves behind) the frame stack is not empty.
C5_StackNonEmpty ==
    (phase \in {"running", "halted"}
        \/ (phase = "panic" /\ ~ProgramInitPanics(test.code)))
    => Len(stack) >= 1

\* C5 witness: the stack is back to the single entry frame after a callee
\* returned (a pop_frame has happened).
C5_Witness ==
    /\ phase = "running"
    /\ Len(stack) = 1
    /\ top_frame(stack).pc > 0
    /\ FuncOf(top_frame(stack)).body[top_frame(stack).pc].op = "Call"

\* C6: the argument stack is a LIFO shared by all frames. Arg pushes the
\* operand's value on top; Param pops the top into its destination; no
\* other step (Call and Return among them) changes the stack. So after
\* Arg a1, Arg a2, Arg a3, Call, the callee's three Params bind a3, a2, a1
\* in this order: in the three-argument program, pick's a, b, c hold the
\* input n, 2 and 1.
C6_ArgStep ==
    /\ (About("Arg") /\ phase' = "running") =>
          args' = Append(args, OperandValue(Current.x))
    /\ (About("Param") /\ phase' = "running") =>
          /\ args # <<>>
          /\ args' = SubSeq(args, 1, Len(args) - 1)
          /\ top_frame(stack').map[Current.x.id + 1] = args[Len(args)]
          /\ Len(stack') = Len(stack)
    /\ ~(About("Arg") \/ About("Param")) => args' = args

C6_Args3Bound ==
    (/\ test.name = "args3"
     /\ phase = "running"
     /\ Len(stack) = 2
     /\ top_frame(stack).pc >= 3)
    => /\ top_frame(stack).map[1] = ValInt(ParseInt(Trim(test.input[1])))
       /\ top_frame(stack).map[2] = ValInt(2)
       /\ top_frame(stack).map[3] = ValInt(1)
       /\ args = <<>>

C6_ArgStackLifo == [][C6_ArgStep]_vars /\ []C6_Args3Bound

\* C6 witness: pick has just bound its third parameter, with input 0 (three
\* different arguments).
C6_Witness ==
    /\ test.name = "args3"
    /\ test.input = <<DecimalLine(0)>>
    /\ phase = "running"
    /\ Len(stack) = 2
    /\ top_frame(stack).pc = 3
    /\ args = <<>>

\* C7: registers are read and written in the top frame only. A set changes
\* one slot of the top frame and nothing of any other frame; so each frame
\* below the top holds what it held when the frame above it was pushed,
\* and after pop_frame the frame that is on top again still holds it.
C7_Step ==
    /\ Len(stack') = Len(stack) =>
          /\ \A i \in 1..(Len(stack) - 1) : stack'[i] = stack[i]
          /\ \E operand \in EnvTestOperands :
                /\ EnvGet(stack', operand) \in EnvTestValues
                /\ \A j \in 1..Len(top_frame(stack).map) :
                      j # operand.id + 1 =>
                          top_frame(stack').map[j] = top_frame(stack).map[j]
    /\ Len(stack') < Len(stack) =>
          top_frame(stack').map = expect[Len(expect)]

C7_Covered == \A i \in 1..Len(expect) : stack[i].map = expect[i]

C7_RegistersOfTopFrameOnly == [][C7_Step]_vars /\ []C7_Covered

\* C7 witness: a frame whose two registers were written (114 and a pointer)
\* is covered by a pushed frame whose registers hold other values.
C7_Witness ==
    /\ phase = "env"
    /\ Len(stack) = 2
    /\ stack[1].map[1] = new_int(114)
    /\ stack[1].map[2] = new_ptr(2, 0)
    /\ stack[2].map[1] = new_int(1919)
    /\ stack[2].map[2] = new_int(114)

\* the frame created by the step: pc 0 and n slots, all Integer(0)
Fresh(frame, n) ==
    /\ frame.pc = 0
    /\ frame.map = [j \in 1..n |-> ValInt(0)]

\* the resolved slot count of the function of the frame created by the step
CreatedNreg == program'.funcs[top_frame(stack').func + 1].nreg

\* C8 as stated: every frame created (the entry frame and each frame a Call
\* pushes) has pc 0 and exactly nreg slots, all Integer(0).
C8_FrameHasNregSlots ==
    [][Len(stack') > Len(stack) => Fresh(top_frame(stack'), CreatedNreg)]_vars

\* C8 amended: every frame created has pc 0 and nreg + 1 slots, all
\* Integer(0), whatever earlier activations of the function left behind.
C8_FrameHasNregPlusOneSlots ==
    [][Len(stack') > Len(stack) =>
          Fresh(top_frame(stack'), CreatedNreg + 1)]_vars

\* C8 witness: a new activation is on top, all zero, above an activation of
\* the same function whose registers have been written.
C8_Witness ==
    /\ phase = "running"
    /\ Len(stack) >= 3
    /\ Fresh(top_frame(stack), FuncOf(top_frame(stack)).nreg + 1)
    /\ \E i \in 1..(Len(stack) - 1) :
          /\ stack[i].func = top_frame(stack).func
          /\ \E j \in 1..Len(stack[i].map) : stack[i].map[j] # ValInt(0)

\* the Fibonacci numbers
RECURSIVE Fib(_)
Fib(n) == IF n <= 0 THEN 0 ELSE IF n = 1 THEN 1 ELSE Fib(n - 1) + Fib(n - 2)

\* the slot the resolver gave a register name in a function
RegSlot(func, name) ==
    CHOOSE id \in 0..func.nreg :
        \E i \in 1..Len(func.body) :
            \E o \in {func.body[i].x, func.body[i].y, func.body[i].z} :
                o.kind = "Reg" /\ o.name = name /\ o.id = id

\* the value of a named register in a frame
RegValue(frame, name) == frame.map[RegSlot(FuncOf(frame), name) + 1]

\* the tokens of the output that are not newlines
Numbers(out) == SelectSeq(out, LAMBDA t : t # "\n")

\* C9: the recursive Fibonacci program on input n writes fib(n), for every
\* n in 0..MaxFibN, and in every activation of fib each sibling call has
\* returned its own result: once the first call has returned (pc past
\* index 9) r1 holds fib(n - 1), once the second has (pc past index 12) r2
\* holds fib(n - 2) and r1 still holds fib(n - 1).
C9_FibCorrect ==
    (test.name = "fib" /\ phase \in {"running", "halted"}) =>
        /\ \A i \in 1..Len(stack) :
              FuncOf(stack[i]).name = "fib" =>
                  LET n == RegValue(stack[i], "n").int
                  IN /\ stack[i].pc > 9 =>
                          RegValue(stack[i], "r1") = ValInt(Fib(n - 1))
                     /\ stack[i].pc > 12 =>
                          RegValue(stack[i], "r2") = ValInt(Fib(n - 2))
                     /\ stack[i].pc > 13 =>
                          RegValue(stack[i], "u") = ValInt(Fib(n))
        /\ phase = "halted" =>
              LET n == ParseInt(Trim(test.input[1]))
              IN /\ Len(stack) = 1
                 /\ RegValue(stack[1], "s") = ValInt(Fib(n))
                 /\ Numbers(fout) = <<ToString(Fib(n))>>
                 /\ fout[1] = ToString(Fib(n))

\* C9 witness: the run on the largest input has halted after writing.
C9_Witness ==
    /\ test.name = "fib"
    /\ test.input = <<DecimalLine(MaxFibN)>>
    /\ phase = "halted"
    /\ fout # <<>>

\* no function of the parsed program is named main
NoMain == \A i \in 1..Len(test.code.funcs) : test.code.funcs[i].name # "main"

\* C10: a program with no function named main aborts during resolution:
\* the only step it takes is the panic of Interpreter::new, with no
\* environment built, no instruction executed and nothing written.
C10_Step ==
    NoMain =>
        /\ phase = "new"
        /\ phase' = "panic"
        /\ stack' = <<>>
        /\ instr_cnt' = 0
        /\ fout' = <<>>

C10_NoMainAborts == [][C10_Step]_vars

\* C10 witness: the program without main has aborted in resolution.
C10_Witness ==
    /\ NoMain
    /\ phase = "panic"
    /\ fault = "no main function found"
    /\ instr_cnt = 0
    /\ fout = <<>>

\* a reference no pass of the resolution can resolve: a Goto or Cond whose
\* label no Label of the same body carries, or a Call of a name no function
\* carries
Dangling(p) ==
    \E f \in 1..Len(p.funcs) : \E i \in 1..Len(p.funcs[f].body) :
        LET body == p.funcs[f].body
        IN \/ /\ body[i].op \in {"Goto", "Cond"}
              /\ ~\E j \in 1..Len(body) :
                    body[j].op = "Label" /\ body[j].name = body[i].name
           \/ /\ body[i].op = "Call"
              /\ ~\E g \in 1..Len(p.funcs) : p.funcs[g].name = body[i].name

\* C11: a program with a Goto or Cond naming a label that has no Label in
\* the same function, or a Call naming a function that does not exist, is
\* aborted by the resolution, wherever the instruction stands: the only
\* step of such a program is the panic of Program::init, which leaves the
\* program as parsed; no frame is ever created for it.
C11_Step ==
    Dangling(program) =>
        /\ phase = "parsed"
        /\ phase' = "panic"
        /\ program' = program
        /\ stack' = <<>>

C11_DanglingReferenceAborts ==
    /\ [][C11_Step]_vars
    /\ [](Dangling(test.code) =>
            /\ phase \in {"parsed", "panic"}
            /\ program = test.code
            /\ stack = <<>>)

\* C11 witness: the resolution has aborted a program that has a main which
\* calls nothing, whose first function holds, after its Return, a Goto to a
\* label that only the other function defines.
C11_Witness ==
    /\ phase = "panic"
    /\ Len(program.funcs) = 2
    /\ program.funcs[2].name = "main"
    /\ \A j \in 1..Len(program.funcs[2].body) :
            program.funcs[2].body[j].op # "Call"
    /\ LET body == program.funcs[1].body
       IN /\ body[1].op = "Return"
          /\ \E i \in 2..Len(body) :
                /\ body[i].op = "Goto"
                /\ body[i].name \notin LabelNames(body)
                /\ body[i].name \in LabelNames(program.funcs[2].body)
          /\ \A i \in 1..Len(body) : body[i].op \in {"Return", "Goto"}

\* the register operands of a body in the order of the scan: the
\* instructions in order, the operands of each in the order x, y, z
RECURSIVE RegOperands(_, _)
RegOperands(body, i) ==
    IF i > Len(body)
    THEN <<>>
    ELSE SelectSeq(<<body[i].x, body[i].y, body[i].z>>,
                   LAMBDA o : o.kind = "Reg")
            \o RegOperands(body, i + 1)

\* the resolution has run and has not panicked
Resolved == phase \in {"new", "running"}

\* C12: in every resolved function the slot of a register operand is the
\* number of distinct register names the scan met before the first
\* occurrence of its name (so slots start at 0, follow first use, are the
\* same for every occurrence of a name and differ between names), and nreg
\* is the number of distinct register names; test_init's program gets the
\* slots test_init asserts.
C12_SlotsInFirstUseOrder ==
    Resolved =>
        /\ \A f \in 1..Len(program.funcs) :
            LET occ == RegOperands(program.funcs[f].body, 1)
                first(name) ==
                    CHOOSE k \in 1..Len(occ) :
                        /\ occ[k].name = name
                        /\ \A j \in 1..(k - 1) : occ[j].name # name
            IN /\ \A k \in 1..Len(occ) :
                    occ[k].id =
                        Cardinality({occ[j].name :
                                        j \in 1..(first(occ[k].name) - 1)})
               /\ program.funcs[f].nreg =
                    Cardinality({occ[k].name : k \in 1..Len(occ)})
        /\ test.code = ProgInit =>
            /\ program.funcs[1].body[7].x.id = 1
            /\ program.funcs[2].body[3].x.id = 1
            /\ program.funcs[1].nreg = 3

\* C12 witness: a resolved function whose first instruction uses b, c, a in
\* that order and whose second uses a and b again: b, c, a hold slots 0, 1,
\* 2 at every occurrence, and nreg is 3.
C12_Witness ==
    /\ Resolved
    /\ \E f \in 1..Len(program.funcs) :
        LET body == program.funcs[f].body
        IN /\ Len(body) >= 2
           /\ body[1].op = "Arith"
           /\ <<body[1].x.name, body[1].y.name, body[1].z.name>>
                = <<"b", "c", "a">>
           /\ <<body[1].x.id, body[1].y.id, body[1].z.id>> = <<0, 1, 2>>
           /\ body[2].op = "Assign"
           /\ <<body[2].x.name, body[2].y.name>> = <<"a", "b">>
           /\ <<body[2].x.id, body[2].y.id>> = <<2, 0>>
           /\ program.funcs[f].nreg = 3

\* C13: in every resolved function the numeric target of every Goto and
\* Cond is a valid index of the same body, and the instruction at that
\* index is a Label carrying the target's name; test_init's Cond gets the
\* target 3 that test_init asserts.
C13_JumpTargetsAreLabels ==
    Resolved =>
        /\ \A f \in 1..Len(program.funcs) :
            LET body == program.funcs[f].body
            IN \A i \in 1..Len(body) :
                body[i].op \in {"Goto", "Cond"} =>
                    /\ body[i].id >= 0
                    /\ body[i].id < Len(body)
                    /\ body[body[i].id + 1].op = "Label"
                    /\ body[body[i].id + 1].name = body[i].name
        /\ test.code = ProgInit => program.funcs[1].body[7].id = 3

\* C13 witness: a resolved body of three instructions that ends with a Goto
\* (or a Cond) whose label is the second instruction, behind another Label.
C13_Witness ==
    /\ Resolved
    /\ \E f \in 1..Len(program.funcs) :
        LET body == program.funcs[f].body
        IN /\ Len(body) = 3
           /\ body[1].op = "Label"
           /\ body[2].op = "Label"
           /\ body[3].op \in {"Goto", "Cond"}
           /\ body[3].name = body[2].name
           /\ body[3].name # body[1].name
           /\ body[3].id = 1

\* no two functions of the program have the same name
UniqueNames(p) ==
    \A f, g \in 1..Len(p.funcs) : p.funcs[f].name = p.funcs[g].name => f = g

\* C14: when the function names are unique, after resolution every
\* function's id is its position in the program, every Call's numeric
\* target is the position of the function with the callee's name, and entry
\* is the position of the function named main; test_init's program gets the
\* call target 0 and the entry 1 that test_init asserts.
C14_FunctionIdsArePositions ==
    Resolved /\ UniqueNames(program) =>
        /\ \A f \in 1..Len(program.funcs) :
            /\ program.funcs[f].id = f - 1
            /\ \A i \in 1..Len(program.funcs[f].body) :
                LET call == program.funcs[f].body[i]
                IN call.op = "Call" =>
                    /\ call.id >= 0
                    /\ call.id < Len(program.funcs)
                    /\ program.funcs[call.id + 1].name = call.name
        /\ program.entry >= 0
        /\ program.entry < Len(program.funcs)
        /\ program.funcs[program.entry + 1].name = "main"
        /\ test.code = ProgInit =>
            /\ program.funcs[2].body[3].id = 0
            /\ program.entry = 1

\* C14 witness: a resolved program of two functions with different names
\* whose main is the second one (entry 1, id 1), and whose first function
\* calls main (target 1) and itself (target 0).
C14_Witness ==
    /\ Resolved
    /\ UniqueNames(program)
    /\ Len(program.funcs) = 2
    /\ program.entry = 1
    /\ program.funcs[2].id = 1
    /\ program.funcs[2].name = "main"
    /\ \E i, j \in 1..Len(program.funcs[1].body) :
        LET body == program.funcs[1].body
        IN /\ body[i].op = "Call" /\ body[i].name = "main" /\ body[i].id = 1
           /\ body[j].op = "Call" /\ body[j].name = "f" /\ body[j].id = 0

\* C16: a Param executed while the argument stack is empty is fatal: the
\* step is a panic that leaves every frame (so every register), the
\* argument stack, the streams and the count as they were, and no step is
\* taken after a panic.
C16_Step ==
    /\ (About("Param") /\ args = <<>>) =>
          /\ phase' = "panic"
          /\ stack' = stack
          /\ args' = args
          /\ fin' = fin
          /\ fout' = fout
          /\ instr_cnt' = instr_cnt
    /\ phase # "panic"

C16_ParamOnEmptyArgsAborts == [][C16_Step]_vars

\* C16 witness: the run has panicked on a Param with the argument stack
\* empty; the register the Param names still holds the 5 assigned before,
\* and nothing was written.
C16_Witness ==
    /\ phase = "panic"
    /\ fault = "arg stack empty"
    /\ Len(stack) = 1
    /\ Current.op = "Param"
    /\ args = <<>>
    /\ OperandValue(Current.x) = ValInt(5)
    /\ instr_cnt = 1
    /\ fout = <<>>

\* C18: an Arith whose operator is Div and whose right operand is
\* Integer(0) is fatal: the step is a panic that leaves every frame (so the
\* destination register), the streams and the count as they were, and no
\* step (no Write in particular) is taken after a panic.
C18_Step ==
    /\ (/\ About("Arith")
        /\ Current.aop = "Div"
        /\ EnvGet(stack, Current.z) = ValInt(0)) =>
          /\ phase' = "panic"
          /\ stack' = stack
          /\ args' = args
          /\ fin' = fin
          /\ fout' = fout
          /\ instr_cnt' = instr_cnt
    /\ phase = "panic" => phase' = "panic" /\ fout' = fout /\ stack' = stack

C18_DivisionByZeroAborts == [][C18_Step]_vars

\* C18 witness: the run has panicked on a division whose divisor register
\* holds Integer(0); the destination still holds the 9 assigned before and
\* the Write after the division has written nothing.
C18_Witness ==
    /\ phase = "panic"
    /\ fault = "attempt to divide by zero"
    /\ Current.op = "Arith"
    /\ Current.aop = "Div"
    /\ EnvGet(stack, Current.z) = ValInt(0)
    /\ OperandValue(Current.x) = ValInt(9)
    /\ FuncOf(top_frame(stack)).body[top_frame(stack).pc + 2].op = "Write"
    /\ fout = <<>>

\* q is the quotient of a by b truncated toward zero: the remainder
\* a - q * b is smaller than b in magnitude and is zero or has the sign of a
IsTruncatedQuotient(a, b, q) ==
    LET rem == a - q * b
    IN /\ rem = 0 \/ (rem > 0) = (a > 0)
       /\ IF b > 0
          THEN -b < rem /\ rem < b
          ELSE b < rem /\ (b = I32Min \/ rem < -b)

\* the first operation of the value test has run on operands of these tags
Operated(op, tag1, tag2) ==
    /\ phase \in {"value_op", "value_back", "panic"}
    /\ expect.op = op
    /\ expect.v1.tag = tag1
    /\ expect.v2.tag = tag2

\* C17: Integer(a) op Integer(b) is Integer(a op b) for the exact sum,
\* difference and product and for the quotient truncated toward zero (the
\* zero divisor, which C18 is about, left aside): the operation yields an
\* integer, and that integer is the exact result, which therefore has to be
\* one a ValInt can hold.
C17_IntegerArithmeticExact ==
    \A op \in ArithOps :
        (Operated(op, "int", "int") /\ ~(op = "Div" /\ expect.v2.int = 0)) =>
            LET a == expect.v1.int
                b == expect.v2.int
            IN /\ ~IsFault(expect.r)
               /\ expect.r.tag = "int"
               /\ ~Overflows(op, a, b)
               /\ CASE op = "Add" -> expect.r.int = a + b
                    [] op = "Sub" -> expect.r.int = a - b
                    [] op = "Mul" -> expect.r.int = a * b
                    [] op = "Div" -> IsTruncatedQuotient(a, b, expect.r.int)

\* q points into the buffer p points into
SameBuffer(p, q) ==
    /\ q.tag = "ptr"
    /\ q.mem = p.mem
    /\ q.size = p.size
    /\ q.alloc = p.alloc

WrappedOffset(op, offset, k) ==
    CASE op = "Add" /\ k > 0 -> (offset + I32Min) + (k + I32Min)
      [] op = "Add" /\ k < 0 -> (offset - I32Min) + (k - I32Min)
      [] op = "Sub" /\ k < 0 -> (offset + I32Min) - (k - I32Min)
      [] op = "Sub" /\ k > 0 -> (offset - I32Min) - (k + I32Min)

\* r is what p op k has to be: p's buffer at the offset moved by k; when
\* the moved offset leaves i32, a panic under overflow checks and the
\* wrapped offset without them
MovedPointer(op, p, k, r) ==
    IF ~Overflows(op, p.ptr, k)
    THEN /\ SameBuffer(p, r)
         /\ r.ptr = IF op = "Add" THEN p.ptr + k ELSE p.ptr - k
    ELSE IF OverflowChecks
         THEN IsFault(r)
         ELSE /\ SameBuffer(p, r)
              /\ r.ptr = WrappedOffset(op, p.ptr, k)

C20_IntegerMinusPointer ==
    Operated("Sub", "int", "ptr") =>
        /\ SameBuffer(expect.v2, expect.r)
        /\ ~Overflows("Sub", expect.v1.int, expect.v2.ptr)
        /\ expect.r.ptr = expect.v1.int - expect.v2.ptr

\* C21: an Arith whose two operands both evaluate to pointers is fatal for
\* each of the four operators: the step is a panic that leaves every frame
\* (so the destination), the argument stack, the streams and the count as
\* they were, and a panicked run stays as it is.
C21_Step ==
    /\ (/\ About("Arith")
        /\ EnvGet(stack, Current.y).tag = "ptr"
        /\ EnvGet(stack, Current.z).tag = "ptr") =>
          /\ Current.aop \in ArithOps
          /\ phase' = "panic"
          /\ stack' = stack
          /\ args' = args
          /\ fin' = fin
          /\ fout' = fout
          /\ instr_cnt' = instr_cnt
    /\ phase = "panic" => UNCHANGED <<stack, args, fin, fout, instr_cnt>>

C21_PointerPointerAborts == [][C21_Step]_vars

\* C21 witness: for each of the four operators a run has panicked on an
\* Arith of two pointers (here: the one that multiplies); the destination
\* still holds the 5 assigned before and nothing was written.
C21_Witness ==
    /\ phase = "panic"
    /\ fault = "ptr * ptr"
    /\ Current.op = "Arith"
    /\ Current.aop = "Mul"
    /\ EnvGet(stack, Current.y).tag = "ptr"
    /\ EnvGet(stack, Current.z).tag = "ptr"
    /\ EnvGet(stack, Current.y).alloc # EnvGet(stack, Current.z).alloc
    /\ OperandValue(Current.x) = ValInt(5)
    /\ fout = <<>>

\* C22: a Cond one of whose compared operands evaluates to a pointer is
\* fatal whatever the relational operator: the step is a panic, never a
\* jump or a fall through.
C22_Step ==
    (/\ About("Cond")
     /\ \/ EnvGet(stack, Current.x).tag = "ptr"
        \/ EnvGet(stack, Current.y).tag = "ptr") =>
        phase' = "panic"

C22_PointerComparisonAborts == [][C22_Step]_vars

\* C23: a Write that does not fault appends to the output the decimal
\* rendering of the operand's value (of the integer at its offset, for a
\* pointer) followed by exactly one newline, and nothing else.
C23_Step ==
    (About("Write") /\ phase' = "running") =>
        LET v == EnvGet(stack, Current.x)
            n == IF v.tag = "int" THEN v.int ELSE v.mem[v.ptr + 1]
        IN fout' = fout \o <<ToString(n), "\n">>

C23_WriteOneValuePerLine == [][C23_Step]_vars

\* the characters i..j of the line are the number n, written with an
\* optional plus sign, and everything around them is white space
Renders(line, n) ==
    \E i \in 1..Len(line) : \E j \in i..Len(line) :
        /\ SubSeq(line, i, j) \in
                {SignedDigits(n)}
                    \cup (IF n >= 0 THEN {<<"+">> \o SignedDigits(n)} ELSE {})
        /\ \A k \in (1..(i - 1)) \cup ((j + 1)..Len(line)) : IsSpace(line[k])

\* the numbers an input line of the model can hold
LineNumbers == -99..99

\* C24: a Read that does not fault consumes exactly one line, and no other
\* step consumes any, so that the k-th Read gets the k-th line; it binds
\* its destination in the top frame, whichever frame that is, to the
\* number the line holds between its white space, and changes no other
\* slot and no other frame.
C24_Step ==
    /\ (About("Read") /\ phase' = "running") =>
        LET k == Len(test.input) - Len(fin) + 1
        IN /\ fin = SubSeq(test.input, k, Len(test.input))
           /\ fin # <<>>
           /\ fin' = Tail(fin)
           /\ \E n \in LineNumbers :
                /\ Renders(test.input[k], n)
                /\ stack' = [stack EXCEPT
                                ![Len(stack)].map[Current.x.id + 1] = ValInt(n),
                                ![Len(stack)].pc = @ + 1]
    /\ ~About("Read") => fin' = fin

C24_ReadTakesTheNextLine == [][C24_Step]_vars

\* C24 witness: the second Read of the run was executed by a callee (two
\* frames) on the second line, " -1", tab, carriage return, newline, after
\* main read the first: the callee's register holds -1, main's holds 1.
C24_Witness ==
    /\ phase = "running"
    /\ test.name = "read3"
    /\ Len(test.input) = 3
    /\ test.input[2] = <<" ", "-", "1", "\t", "\r", "\n">>
    /\ Len(fin) = 1
    /\ Len(stack) = 2
    /\ top_frame(stack).pc = 2
    /\ top_frame(stack).map[1] = ValInt(-1)
    /\ stack[1].map[1] = ValInt(1)

\* the line holds a base-10 signed integer: white space, an optional sign,
\* at least one digit and only digits, white space
WellFormed(line) ==
    \E i \in 1..Len(line) : \E j \in i..Len(line) :
        /\ \A k \in (1..(i - 1)) \cup ((j + 1)..Len(line)) : IsSpace(line[k])
        /\ LET first == IF line[i] \in {"+", "-"} THEN i + 1 ELSE i
           IN /\ first <= j
              /\ \A k \in first..j : IsDigit(line[k])

\* C25: a Read executed when the input is exhausted or the next line is
\* not a base-10 signed integer is fatal: the step is a panic that leaves
\* every frame (so the destination), the argument stack, the output and
\* the count as they were, and a panicked run stays as it is.
C25_Step ==
    /\ (About("Read") /\ (fin = <<>> \/ ~WellFormed(Head(fin)))) =>
          /\ phase' = "panic"
          /\ stack' = stack
          /\ args' = args
          /\ fout' = fout
          /\ instr_cnt' = instr_cnt
    /\ phase = "panic" => UNCHANGED <<stack, args, fout, instr_cnt, fin>>

C25_BadInputAborts == [][C25_Step]_vars

\* C25 witness: the third Read of a run has panicked on the line "1 2" in
\* main after two Reads succeeded; its destination still holds the 9
\* assigned before and nothing was written.
C25_Witness ==
    /\ phase = "panic"
    /\ fault = "input error"
    /\ test.name = "read3"
    /\ Len(test.input) = 3
    /\ test.input[3] = <<"1", " ", "2", "\n">>
    /\ Len(stack) = 1
    /\ Current.op = "Read"
    /\ OperandValue(Current.x) = ValInt(9)
    /\ instr_cnt = 7
    /\ fout = <<>>

\* the relation op between two integers
IntRel(op, a, b) ==
    CASE op = "LT" -> a < b
      [] op = "LE" -> a <= b
      [] op = "GT" -> a > b
      [] op = "GE" -> a >= b
      [] op = "EQ" -> a = b
      [] op = "NE" -> a # b

\* C26: a Cond over two integers sets the pc of the top frame to its
\* resolved target when the relation holds and to pc + 1 when it does not,
\* and a Goto sets it to its resolved target; nothing else of the frame
\* stack (no register, no buffer held by one, no other frame, not its
\* depth) and nothing of the argument stack changes.
C26_Step ==
    /\ (/\ About("Cond")
        /\ EnvGet(stack, Current.x).tag = "int"
        /\ EnvGet(stack, Current.y).tag = "int") =>
          /\ phase' = "running"
          /\ stack' = [stack EXCEPT ![Len(stack)].pc =
                        IF IntRel(Current.rop, EnvGet(stack, Current.x).int,
                                  EnvGet(stack, Current.y).int)
                        THEN Current.id
                        ELSE @ + 1]
          /\ args' = args
    /\ About("Goto") =>
          /\ phase' = "running"
          /\ stack' = [stack EXCEPT ![Len(stack)].pc = Current.id]
          /\ args' = args

C26_JumpsChangeOnlyThePc == [][C26_Step]_vars

\* C26 witness: `IF n <= #1 GOTO skip` has just jumped on n = 1: two
\* instructions were executed, the pc is on the label, nothing was written.
C26_Witness ==
    /\ phase = "running"
    /\ test.name = "intcond"
    /\ instr_cnt = 2
    /\ FuncOf(top_frame(stack)).body[2].rop = "LE"
    /\ top_frame(stack).map[1] = ValInt(1)
    /\ top_frame(stack).pc = 3
    /\ Current.op = "Label"
    /\ fout = <<>>

\* C27: each Dec binds its destination to a new buffer of the given element
\* count, every cell 0, at offset 0, that no value held before descends
\* from, and changes nothing else the environment holds; a Store through a
\* pointer of one Dec execution changes no pointer of another Dec
\* execution, wherever it is held. In the program that executes one Dec
\* twice (for p and for q), the Load through q before any Store yields 0,
\* and so does the Load through q after the Store through p.
C27_Step ==
    /\ (About("Dec") /\ phase' = "running") =>
          LET p == top_frame(stack').map[Current.x.id + 1]
          IN /\ p.tag = "ptr"
             /\ p.ptr = 0
             /\ p.size = Current.size
             /\ p.mem = [i \in 1..Current.size |-> 0]
             /\ \A j \in 0..(Current.size - 1) :
                   load([p EXCEPT !.ptr = j]) = ValInt(0)
             /\ \A v \in LiveValues(stack, args) :
                   v.tag = "ptr" => v.alloc # p.alloc
             /\ args' = args
             /\ Len(stack') = Len(stack)
             /\ \A i \in 1..(Len(stack) - 1) : stack'[i] = stack[i]
             /\ \A j \in 1..Len(top_frame(stack).map) :
                   j # Current.x.id + 1 =>
                       top_frame(stack').map[j] = top_frame(stack).map[j]
    /\ (About("Store") /\ phase' = "running") =>
          LET q == OperandValue(Current.x)
          IN /\ q.tag = "ptr"
             /\ Len(stack') = Len(stack)
             /\ Len(args') = Len(args)
             /\ \A i \in 1..Len(stack) :
                   /\ Len(stack'[i].map) = Len(stack[i].map)
                   /\ \A j \in 1..Len(stack[i].map) :
                         (/\ stack[i].map[j].tag = "ptr"
                          /\ stack[i].map[j].alloc # q.alloc)
                         => stack'[i].map[j] = stack[i].map[j]
             /\ \A k \in 1..Len(args) :
                   (args[k].tag = "ptr" /\ args[k].alloc # q.alloc)
                   => args'[k] = args[k]

C27_TwoDec ==
    (test.name = "twodec" /\ phase \in {"running", "halted"}
        /\ Len(stack) = 1) =>
        /\ stack[1].pc > 2 => RegValue(stack[1], "c") = ValInt(0)
        /\ stack[1].pc > 4 => RegValue(stack[1], "d") = ValInt(0)
        /\ stack[1].pc > 1 =>
              /\ RegValue(stack[1], "p").tag = "ptr"
              /\ RegValue(stack[1], "q").tag = "ptr"
              /\ RegValue(stack[1], "p").alloc # RegValue(stack[1], "q").alloc

C27_DecBuffersIndependent == [][C27_Step]_vars /\ []C27_TwoDec

\* C27 witness: the run that executed the Dec of mk twice has stored 5
\* through p and then loaded d through q: p and q come from different
\* executions, and d is 0.
C27_Witness ==
    /\ test.name = "twodec"
    /\ phase = "halted"
    /\ instr_cnt = 10
    /\ RegValue(stack[1], "p").alloc = 1
    /\ RegValue(stack[1], "q").alloc = 2
    /\ RegValue(stack[1], "c") = ValInt(0)
    /\ RegValue(stack[1], "d") = ValInt(0)

\* the harness has stored an integer through a pointer that is in bounds
StoredInt ==
    /\ phase \in {"value_store", "value_load", "panic"}
    /\ expect.op = "Store"
    /\ expect.v1.tag = "ptr"
    /\ InBounds(expect.v1)
    /\ expect.v2.tag = "int"

\* C28: a store of an integer through a pointer at offset i changes cell i
\* of its buffer and nothing else: the pointer keeps its buffer length and
\* its offset, a load at offset i returns the stored integer, and a load at
\* any other offset j of the buffer (directly, or through the pointer moved
\* by j - i) returns what it returned before the store.
C28_StoreChangesOneCell ==
    StoredInt =>
        LET p == expect.v1
            r == expect.r
        IN /\ r.tag = "ptr"
           /\ r.ptr = p.ptr
           /\ r.size = p.size
           /\ Len(r.mem) = Len(p.mem)
           /\ load(r) = expect.v2
           /\ \A j \in 0..(Len(p.mem) - 1) :
                 j # p.ptr =>
                     load([r EXCEPT !.ptr = j]) = load([p EXCEPT !.ptr = j])
           /\ expect.back = "Load" =>
                 LET j == p.ptr + expect.with
                 IN (j >= 0 /\ j < Len(p.mem)) =>
                       /\ phase = "value_load"
                       /\ expect.r2 = IF j = p.ptr THEN expect.v2
                                      ELSE load([p EXCEPT !.ptr = j])

\* C28 witness: 2 was stored at offset 1 of the buffer that holds 114 in
\* cell 0, and the load one cell below still returns 114.
C28_Witness ==
    /\ StoredInt
    /\ phase = "value_load"
    /\ expect.v1.ptr = 1
    /\ expect.v2 = ValInt(2)
    /\ expect.r.mem[2] = 2
    /\ expect.with = -1
    /\ expect.r2 = ValInt(114)

\* C29: while a program runs, and when it has halted or panicked in a
\* step, each frame below the top has a pc that indexes a Call of its
\* function, and the function that Call resolves to is the function of the
\* frame directly above; and no run ends in the 'return error' panic.
C29_CallersParkedOnCalls ==
    /\ (phase \in {"running", "halted"}
            \/ (phase = "panic" /\ ~ProgramInitPanics(test.code))) =>
          \A i \in 1..(Len(stack) - 1) :
              /\ stack[i].pc < Len(FuncOf(stack[i]).body)
              /\ LET call == FuncOf(stack[i]).body[stack[i].pc + 1]
                 IN /\ call.op = "Call"
                    /\ call.id = stack[i + 1].func
                    /\ program.funcs[call.id + 1].id = stack[i + 1].func
                    /\ program.funcs[stack[i + 1].func + 1].name = call.name
    /\ fault # "return error"

\* C29 witness: main, as function 0, is parked on its Call of the function
\* after it, whose activation is on top.
C29_Witness ==
    /\ phase = "running"
    /\ Len(stack) >= 2
    /\ stack[Len(stack) - 1].func # top_frame(stack).func
    /\ top_frame(stack).func # 0
    /\ FuncOf(stack[Len(stack) - 1]).body[stack[Len(stack) - 1].pc + 1].name
          = FuncOf(top_frame(stack)).name

\* C30: whenever the machine has halted, the frame stack holds exactly one
\* frame, the activation of the entry function built with the environment:
\* a Return in a nested activation of main returns to its caller.
C30_HaltsWithOneFrame ==
    phase = "halted" =>
        /\ Len(stack) = 1
        /\ stack[1].func = program.entry

\* the environment was built from a resolved program
EnvBuilt ==
    phase \in {"running", "halted"}
        \/ (phase = "panic" /\ ~ProgramInitPanics(test.code))

\* C31: in a resolved program every register operand of a function carries
\* a slot below the function's nreg, and every frame on the stack has the
\* nreg + 1 slots of its function: so each register operand of the function
\* a frame runs indexes inside that frame's slot array, and no step ends in
\* the panic of a register read outside it.
C31_SlotsInsideFrames ==
    EnvBuilt =>
        /\ \A f \in 1..Len(program.funcs) :
              LET occ == RegOperands(program.funcs[f].body, 1)
              IN \A k \in 1..Len(occ) : occ[k].id < program.funcs[f].nreg
        /\ \A i \in 1..Len(stack) :
              LET occ == RegOperands(FuncOf(stack[i]).body, 1)
              IN /\ Len(stack[i].map) = FuncOf(stack[i]).nreg + 1
                 /\ \A k \in 1..Len(occ) : occ[k].id < Len(stack[i].map)
        /\ fault # "undefined"

\* C31 witness: an activation of a function of three registers has written
\* its last slot, above a frame of another function.
C31_Witness ==
    /\ phase = "running"
    /\ Len(stack) >= 2
    /\ FuncOf(top_frame(stack)).nreg >= 3
    /\ top_frame(stack).map[FuncOf(top_frame(stack)).nreg] # ValInt(0)
    /\ FuncOf(stack[1]).nreg # FuncOf(top_frame(stack)).nreg

\* C32: Program::init applied to the program main has already resolved
\* does not panic and changes nothing: the second resolution, in
\* Interpreter::new, leaves every slot index, slot count, jump target, call
\* target, function id and the entry as the first one set them.
C32_Step ==
    phase = "new" =>
        /\ phase' = "running"
        /\ program'.entry = program.entry
        /\ Len(program'.funcs) = Len(program.funcs)
        /\ \A f \in 1..Len(program.funcs) :
              /\ program'.funcs[f].id = program.funcs[f].id
              /\ program'.funcs[f].nreg = program.funcs[f].nreg
              /\ program'.funcs[f].body = program.funcs[f].body
        /\ program' = program

C32_ResolutionIdempotent == [][C32_Step]_vars

\* C32 witness: a program resolved twice, whose first resolution was not
\* the identity: it has a register in a slot other than 0, a jump to an
\* index other than 0, a Call of function 1, and entry 1.
C32_Witness ==
    /\ phase = "running"
    /\ test.name = "resolve"
    /\ program = ProgramInit(ProgramInit(test.code))
    /\ program # test.code
    /\ program.entry = 1
    /\ \E f \in 1..Len(program.funcs) :
          \E k \in 1..Len(program.funcs[f].body) :
              /\ program.funcs[f].body[k].x.kind = "Reg"
              /\ program.funcs[f].body[k].x.id > 0
    /\ \E f \in 1..Len(program.funcs) :
          \E k \in 1..Len(program.funcs[f].body) :
              /\ program.funcs[f].body[k].op \in {"Goto", "Cond"}
              /\ program.funcs[f].body[k].id > 0
    /\ \E f \in 1..Len(program.funcs) :
          \E k \in 1..Len(program.funcs[f].body) :
              /\ program.funcs[f].body[k].op = "Call"
              /\ program.funcs[f].body[k].id = 1

\* the step is a panic that leaves the environment, the streams and the
\* count as they were
Aborts ==
    /\ phase' = "panic"
    /\ stack' = stack
    /\ args' = args
    /\ fin' = fin
    /\ fout' = fout
    /\ instr_cnt' = instr_cnt

\* the operand of the instruction about to run evaluates to a pointer whose
\* offset is outside its buffer
OutOfBounds(operand) ==
    /\ OperandValue(operand).tag = "ptr"
    /\ ~InBounds(OperandValue(operand))

\* C33 as stated: a Load or a Store through a pointer whose offset is
\* outside its buffer is a panic that reads and changes no cell.
C33_Step ==
    /\ (About("Load") /\ OutOfBounds(Current.y)) => Aborts
    /\ (About("Store") /\ OutOfBounds(Current.x)) => Aborts

C33_IntStep ==
    /\ (About("Load") /\ OutOfBounds(Current.y)) =>
          Aborts /\ fault' = "index out of bounds"
    /\ (About("Store") /\ OutOfBounds(Current.x)) =>
          IF OperandValue(Current.y).tag = "int"
          THEN Aborts /\ fault' = "index out of bounds"
          ELSE /\ phase' = "running"
               /\ Len(stack') = Len(stack)
               /\ \A i \in 1..Len(stack) :
                     /\ stack'[i].map = stack[i].map
                     /\ stack'[i].func = stack[i].func
               /\ top_frame(stack').pc = top_frame(stack).pc + 1
               /\ args' = args
               /\ fout' = fout

====
